---- MODULE Spec2Model ----
(***************************************************************************)
(* A model of MirCrewClient (src/mircrew_mcp/client.py): the session       *)
(* fields, the cookie jar of the underlying HTTP client, and the           *)
(* operations authenticate, search_movie, get_movie_details,               *)
(* get_magnet_link and the two gateway methods, each split at its awaits.  *)
(*                                                                         *)
(* Strings are sequences of lexical tokens (a token stands for one or more *)
(* characters); Python's None is the value None.                           *)
(***************************************************************************)
EXTENDS Integers, Sequences, FiniteSets, TLC

VARIABLES
    session_id,     \* MirCrewClient.session_id
    user_id,        \* MirCrewClient.user_id
    autologin_key,  \* MirCrewClient.autologin_key
    authenticated,  \* MirCrewClient.authenticated
    cookies,        \* MirCrewClient.client.cookies: the jar of the httpx client
    callers,        \* the coroutines that use the client
    op,             \* per coroutine: the method it is running ("idle" when none)
    pc,             \* per coroutine: the await it is suspended at
    arg,            \* per coroutine: the argument of the running method
    sent,           \* per coroutine: the requests the running call has sent, in order
    login_set,      \* per coroutine: the cookie names its credentials POST's response set
    answered,       \* per coroutine: how many requests of the running call have completed
    thanks_link,    \* per coroutine: get_magnet_link's thanks anchor (one or no href)
    parsed,         \* per coroutine: the requests (indices of sent) whose body went to parser.py
    outcome,        \* per coroutine: how its last call ended
    replies,        \* per coroutine: how each completed request of the running call ended
    login_form,     \* per coroutine: the token inputs authenticate read on the login page
    raised,         \* per coroutine: the exception as first raised inside the running call
    username,       \* MirCrewClient.username
    password,       \* MirCrewClient.password
    _client,        \* __main__._client: the server's client object, or None
    objects,        \* the MirCrewClient objects the server has created and still refers to
    environ,        \* os.environ, as far as the constructor reads it
    tool,           \* per coroutine: its call of get_client
    document,       \* the page handed to a function of parser.py
    extracted,      \* what that function returned or raised
    earlier         \* the calls of the functions of parser.py made before

vars == <<session_id, user_id, autologin_key, authenticated, cookies, callers,
          op, pc, arg, sent, login_set, answered, thanks_link, parsed, outcome,
          replies, login_form, raised, username, password,
          _client, objects, environ, tool, document, extracted, earlier>>

credentials == <<username, password>>

\* the state of the MCP server (src/mircrew_mcp/__main__.py)
server == <<_client, objects, environ, tool>>

\* a call of the extraction engine on its own (src/mircrew_mcp/parser.py)
extraction == <<document, extracted, earlier>>

session == <<session_id, user_id, autologin_key, authenticated>>

----------------------------------------------------------------------------
(* Bounds of the model. *)

\* longest title / movie_id argument, in tokens
MaxLen == 2

\* most anchors on a results page given to parse_search_results on its own
\* (a topic page has one fewer)
MaxAnchors == 3

\* most strings in the post of a topic page given to parse_movie_details
MaxNodes == 2

\* most calls of the functions of parser.py one after the other
MaxCalls == 3

----------------------------------------------------------------------------
(* Values. *)

None == "None"

Tasks == {"t1", "t2"}

BASE_URL == "https://mircrew-releases.org"

\* the three cookie names of client.py:135-137
SID == "phpbb3_12hgm_sid"
UID == "phpbb3_12hgm_u"
KEY == "phpbb3_12hgm_k"
CookieNames == {SID, UID, KEY}

\* Python truthiness of an Optional[str]: `not x` holds for None and for ""
Truthy(x) == x /= None /\ x /= ""

\* the tokens arguments are made of: a blank, a digit, the digits 404, a letter
Alphabet == {" ", "7", "404", "a"}
Digits == {"7", "404"}

RECURSIVE SeqsUpTo(_, _)
SeqsUpTo(S, n) ==
    IF n = 0 THEN {<<>>}
    ELSE LET shorter == SeqsUpTo(S, n - 1)
         IN  shorter \cup {Append(s, x) : s \in {q \in shorter : Len(q) = n - 1}, x \in S}

Strings == SeqsUpTo(Alphabet, MaxLen)

\* str.strip(): leading and trailing whitespace removed
RECURSIVE lstrip(_)
lstrip(s) == IF s /= <<>> /\ Head(s) = " " THEN lstrip(Tail(s)) ELSE s

RECURSIVE rstrip(_)
rstrip(s) ==
    IF s /= <<>> /\ s[Len(s)] = " " THEN rstrip(SubSeq(s, 1, Len(s) - 1)) ELSE s

strip(s) == rstrip(lstrip(s))

\* str.isdigit(): non-empty and every character a digit
isdigit(s) == s /= <<>> /\ \A i \in 1..Len(s) : s[i] \in Digits

\* str.startswith over token sequences
startswith(s, p) == Len(s) >= Len(p) /\ SubSeq(s, 1, Len(p)) = p

\* `tok in s` for a token
Contains(s, tok) == \E i \in 1..Len(s) : s[i] = tok

----------------------------------------------------------------------------
(* The failures of the operations (src/mircrew_mcp/exceptions.py) and the  *)
(* way a call ends.                                                        *)

Raise(kind, msg) == [kind |-> kind, value |-> msg]
Return(v)        == [kind |-> "return", value |-> v]
Pending          == [kind |-> "pending", value |-> None]

ErrorKinds == {"AuthenticationError", "MovieNotFoundError", "ParsingError",
               "NetworkError", "MirCrewError"}

----------------------------------------------------------------------------
(* The HTTP client (httpx.AsyncClient) and the site, as the client sees    *)
(* them: a request either fails in transport, or is answered with a status,*)
(* a body and Set-Cookie headers that the client's jar absorbs.            *)

\* transport failures: subclasses of httpx.HTTPError with their str()
TransportFailures == {"ConnectError", "ReadTimeout"}

TransportMessage(f) ==
    IF f = "ConnectError" THEN <<"All connection attempts failed">> ELSE <<>>

\* statuses a response can carry; raise_for_status() raises for the last two
Statuses == {200, 404, 500}

\* str() of the httpx.HTTPStatusError raise_for_status() raises for `url`
StatusMessage(status, url) ==
    (IF status = 404
       THEN <<"Client error '", "404", " ", "Not Found", "' for url '">>
       ELSE <<"Server error '", "500", " ", "Internal Server Error", "' for url '">>)
    \o url \o <<"'">>

\* a response's Set-Cookie headers: per cookie name a value, or Keep for none
Keep == "Keep"

SetC(s, u, k) == [c \in CookieNames |-> IF c = SID THEN s ELSE IF c = UID THEN u ELSE k]

SetCookieChoices ==
    { SetC(Keep, Keep, Keep),       \* sets no session cookie
      SetC("sA", "1", ""),          \* an anonymous session
      SetC("sB", "2", "kA"),        \* a logged-in session with autologin
      SetC("sB", "2", Keep),        \* a logged-in session, no autologin key
      SetC(Keep, "1", Keep) }       \* the user falls back to anonymous

\* the jar after a response with Set-Cookie headers sc
Absorb(jar, sc) == [c \in CookieNames |-> IF sc[c] = Keep THEN jar[c] ELSE sc[c]]

NamesSet(sc) == {c \in CookieNames : sc[c] /= Keep}

\* httpx.URL(): a URL with a non-printable ASCII character raises
\* httpx.InvalidURL, which is not an httpx.HTTPError
CTRL == "\t"
InvalidURL(url) == Contains(url, CTRL)

Request(method, url, cks, data) ==
    [method |-> method, url |-> url, cookies |-> cks, data |-> data]

NoCookies == [c \in {} |-> None]

\* the credentials given to the constructor (client.py:35-36)
USERNAME == "user"
PASSWORD == "secret"

----------------------------------------------------------------------------
(* Ending a call and starting one. *)

\* what authenticate has read of the login page before the page arrives
NoForm == [form_token |-> None, creation_time |-> None]

Finish(t, out) ==
    /\ pc' = [pc EXCEPT ![t] = "done"]
    /\ outcome' = [outcome EXCEPT ![t] = out]

Begin(t, method, a) ==
    /\ t \in callers
    /\ pc[t] = "idle"
    /\ op' = [op EXCEPT ![t] = method]
    /\ arg' = [arg EXCEPT ![t] = a]
    /\ login_set' = [login_set EXCEPT ![t] = {}]
    /\ answered' = [answered EXCEPT ![t] = 0]
    /\ thanks_link' = [thanks_link EXCEPT ![t] = <<>>]
    /\ parsed' = [parsed EXCEPT ![t] = {}]
    /\ replies' = [replies EXCEPT ![t] = <<>>]
    /\ login_form' = [login_form EXCEPT ![t] = NoForm]

\* the caller has taken the outcome of its call and is ready for the next one
Resume(t) ==
    /\ pc[t] = "done"
    /\ pc' = [pc EXCEPT ![t] = "idle"]
    /\ op' = [op EXCEPT ![t] = "none"]
    /\ arg' = [arg EXCEPT ![t] = <<>>]
    /\ sent' = [sent EXCEPT ![t] = <<>>]
    /\ login_set' = [login_set EXCEPT ![t] = {}]
    /\ answered' = [answered EXCEPT ![t] = 0]
    /\ thanks_link' = [thanks_link EXCEPT ![t] = <<>>]
    /\ parsed' = [parsed EXCEPT ![t] = {}]
    /\ outcome' = [outcome EXCEPT ![t] = Pending]
    /\ replies' = [replies EXCEPT ![t] = <<>>]
    /\ login_form' = [login_form EXCEPT ![t] = NoForm]
    /\ raised' = [raised EXCEPT ![t] = Pending]
    /\ UNCHANGED <<session, cookies, callers, credentials>>

\* the request the coroutine awaits has completed (answered, or failed)
Completed(t) == answered' = [answered EXCEPT ![t] = @ + 1]

\* how a request ended: with an httpx transport error of class f, or with a
\* response of some status whose body carries a not-found phrase ("" for none)
Failure(f) == [failure |-> f, status |-> 0, phrase |-> ""]
Answer(status, phrase) == [failure |-> "", status |-> status, phrase |-> phrase]

Replied(t, r) == replies' = [replies EXCEPT ![t] = Append(@, r)]

\* the exception e is raised inside the running call
Raises(t, e) == raised' = [raised EXCEPT ![t] = e]

----------------------------------------------------------------------------
(* authenticate (client.py:65-157). *)

\* the login page as authenticate reads it: the value of the form_token and
\* creation_time inputs (None: no such input, or no value attribute) and the
\* action of the form matching ucp.php?mode=login (empty: no such form)
LOGIN == "ucp.php?mode=login"

LoginPages ==
    [ form_token    : {None, "", "ft"},
      creation_time : {None, "", "ct"},
      form_action   : {<<>>, <<"./", LOGIN>>, <<LOGIN>>, <<"http://other.example/", LOGIN>>,
                       <<LOGIN, CTRL>>} ]

\* client.py:108-111
LoginUrl(form_action) ==
    <<BASE_URL, "/">> \o
    (IF startswith(form_action, <<"./">>) THEN Tail(form_action) ELSE form_action)

\* client.py:114-122
LoginData(page) ==
    [ username |-> username, password |-> password, autologin |-> "on",
      creation_time |-> page.creation_time, form_token |-> page.form_token ]

\* the test of client.py:96 on the form_token input alone
TokensMissingOne(page) == ~Truthy(page.form_token)

\* client.py:96: `not form_token or not creation_time`
TokensMissing(page) == ~Truthy(page.form_token) \/ ~Truthy(page.creation_time)

\* client.py:97-100
NoFormTokens ==
    Raise("AuthenticationError",
          <<"Failed to extract ", "form tokens", " from login page. ",
            "The website structure may have changed.">>)

\* client.py:142: the handshake is taken to have failed
LoginRejected(sid, uid, key) == ~Truthy(sid) \/ ~Truthy(uid) \/ uid = "1"

\* authenticate returning at once when the client is authenticated already
AuthStartOnce(t) ==
    /\ Begin(t, "authenticate", <<>>)
    /\ IF authenticated
         THEN /\ Finish(t, Return(TRUE))
              /\ sent' = [sent EXCEPT ![t] = <<>>]
         ELSE /\ sent' = [sent EXCEPT ![t] =
                            <<Request("GET", <<BASE_URL, "/index.php">>, NoCookies, None)>>]
              /\ pc' = [pc EXCEPT ![t] = "login_page"]
              /\ outcome' = [outcome EXCEPT ![t] = Pending]
    /\ UNCHANGED <<session, cookies, callers, credentials, raised>>

\* client.py:76-79: the call, up to the await of the login-page GET
AuthStart(t) ==
    /\ Begin(t, "authenticate", <<>>)
    /\ sent' = [sent EXCEPT ![t] =
                  <<Request("GET", <<BASE_URL, "/index.php">>, NoCookies, None)>>]
    /\ pc' = [pc EXCEPT ![t] = "login_page"]
    /\ outcome' = [outcome EXCEPT ![t] = Pending]
    /\ UNCHANGED <<session, cookies, callers, credentials, raised>>

\* client.py:79 and 152-153: the login-page GET fails in transport
AuthLoginPageFails(t) ==
    /\ pc[t] = "login_page"
    /\ \E f \in TransportFailures :
         /\ Finish(t, Raise("NetworkError",
                            <<"Network error during authentication: ">> \o TransportMessage(f)))
         /\ Raises(t, Raise(f, TransportMessage(f)))
         /\ Replied(t, Failure(f))
    /\ Completed(t)
    /\ UNCHANGED <<session, cookies, callers, credentials, op, arg, sent, login_set, parsed, thanks_link,
                   login_form>>

\* client.py:80 and 152-153: the login page answers with an error status
AuthLoginPageStatus(t) ==
    /\ pc[t] = "login_page"
    /\ \E status \in Statuses \ {200}, sc \in SetCookieChoices :
         /\ cookies' = Absorb(cookies, sc)
         /\ Finish(t, Raise("NetworkError",
                            <<"Network error during authentication: ">>
                            \o StatusMessage(status, sent[t][1].url)))
         /\ Raises(t, Raise("HTTPStatusError", StatusMessage(status, sent[t][1].url)))
         /\ Replied(t, Answer(status, ""))
    /\ Completed(t)
    /\ UNCHANGED <<session, callers, credentials, op, arg, sent, login_set, parsed, thanks_link,
                   login_form>>

\* client.py:82-131: the login page arrives; tokens and form are extracted and
\* the credentials POST is sent
AuthLoginPage(t) ==
    /\ pc[t] = "login_page"
    /\ \E page \in LoginPages, sc \in SetCookieChoices :
         /\ cookies' = Absorb(cookies, sc)
         /\ login_form' = [login_form EXCEPT ![t] =
                              [form_token |-> page.form_token,
                               creation_time |-> page.creation_time]]
         /\ IF TokensMissing(page)
              THEN /\ Finish(t, NoFormTokens)
                   /\ Raises(t, NoFormTokens)
                   /\ UNCHANGED sent
            ELSE IF page.form_action = <<>>
              THEN /\ Finish(t, Raise("AuthenticationError",
                                      <<"Login form not found on the page">>))
                   /\ Raises(t, Raise("AuthenticationError",
                                      <<"Login form not found on the page">>))
                   /\ UNCHANGED sent
            ELSE IF InvalidURL(LoginUrl(page.form_action))
              THEN /\ Finish(t, Raise("MirCrewError",
                                      <<"Unexpected error during authentication: ",
                                        "Invalid non-printable ASCII character in URL">>))
                   /\ Raises(t, Raise("InvalidURL",
                                      <<"Invalid non-printable ASCII character in URL">>))
                   /\ UNCHANGED sent
            ELSE /\ sent' = [sent EXCEPT ![t] =
                               Append(@, Request("POST", LoginUrl(page.form_action),
                                                 NoCookies, LoginData(page)))]
                 /\ pc' = [pc EXCEPT ![t] = "login_post"]
                 /\ UNCHANGED <<outcome, raised>>
    /\ Replied(t, Answer(200, ""))
    /\ Completed(t)
    /\ UNCHANGED <<session, callers, credentials, op, arg, login_set, parsed, thanks_link>>

\* client.py:124-131 and 152-153: the credentials POST fails in transport
AuthLoginPostFails(t) ==
    /\ pc[t] = "login_post"
    /\ \E f \in TransportFailures :
         /\ Finish(t, Raise("NetworkError",
                            <<"Network error during authentication: ">> \o TransportMessage(f)))
         /\ Raises(t, Raise(f, TransportMessage(f)))
         /\ Replied(t, Failure(f))
    /\ Completed(t)
    /\ UNCHANGED <<session, cookies, callers, credentials, op, arg, sent, login_set, parsed, thanks_link,
                   login_form>>

\* client.py:133-150: the POST is answered (whatever its status: no
\* raise_for_status here); the three fields are read from the jar and checked
AuthLoginResponse(t) ==
    /\ pc[t] = "login_post"
    /\ \E status \in Statuses, sc \in SetCookieChoices :
         LET jar == Absorb(cookies, sc) IN
         /\ cookies' = jar
         /\ login_set' = [login_set EXCEPT ![t] = NamesSet(sc)]
         /\ session_id' = jar[SID]
         /\ user_id' = jar[UID]
         /\ autologin_key' = jar[KEY]
         /\ Replied(t, Answer(status, ""))
         /\ IF LoginRejected(jar[SID], jar[UID], jar[KEY])
              THEN /\ Finish(t, Raise("AuthenticationError",
                                      <<"Authentication failed. Please check your credentials.">>))
                   /\ Raises(t, Raise("AuthenticationError",
                                      <<"Authentication failed. Please check your credentials.">>))
                   /\ UNCHANGED authenticated
              ELSE /\ authenticated' = TRUE
                   /\ Finish(t, Return(TRUE))
                   /\ UNCHANGED raised
    /\ Completed(t)
    /\ UNCHANGED <<callers, credentials, op, arg, sent, parsed, thanks_link, login_form>>

authenticate(t) ==
    \/ AuthStart(t)
    \/ AuthLoginPageFails(t)
    \/ AuthLoginPageStatus(t)
    \/ AuthLoginPage(t)
    \/ AuthLoginPostFails(t)
    \/ AuthLoginResponse(t)

----------------------------------------------------------------------------
(* The gateway: _get_auth_cookies, _authenticated_get, _authenticated_post *)
(* (client.py:159-235).                                                    *)

Field(c) == IF c = SID THEN session_id ELSE IF c = UID THEN user_id ELSE autologin_key

\* client.py:159-173
AuthCookies == [c \in {n \in CookieNames : Truthy(Field(n))} |-> Field(c)]

\* dict.update: the second mapping wins on a common key
Update(base, extra) ==
    [c \in DOMAIN base \cup DOMAIN extra |-> IF c \in DOMAIN extra THEN extra[c] ELSE base[c]]

\* client.py:195-198 (and 226-229): kw is the caller's cookies argument, the
\* empty mapping when absent
RequestCookies(kw) == Update(AuthCookies, kw)

NotAuthenticated ==
    Raise("AuthenticationError", <<"Not authenticated. Call authenticate() first.">>)

\* the gateway without the guard of client.py:190-191
GatewayUnguarded(t, method, url, kw, prior, next) ==
    /\ sent' = [sent EXCEPT ![t] =
                  Append(prior, Request(method, url, RequestCookies(kw), None))]
    /\ pc' = [pc EXCEPT ![t] = next]
    /\ outcome' = [outcome EXCEPT ![t] = Pending]
    /\ Raises(t, Pending)

\* client.py:190-200 (and 221-231): the guard, the cookies, and the request
\* sent; `prior` is what the running call has sent so far, `next` the await
Gateway(t, method, url, kw, prior, next) ==
    IF ~authenticated
      THEN /\ Finish(t, NotAuthenticated)
           /\ Raises(t, NotAuthenticated)
           /\ sent' = [sent EXCEPT ![t] = prior]
      ELSE /\ sent' = [sent EXCEPT ![t] =
                         Append(prior, Request(method, url, RequestCookies(kw), None))]
           /\ pc' = [pc EXCEPT ![t] = next]
           /\ outcome' = [outcome EXCEPT ![t] = Pending]
           /\ Raises(t, Pending)

LastUrl(t) == sent[t][Len(sent[t])].url

\* the transport error let through as it is, without the handler of
\* client.py:203-204
GatewayErrorRaw(method, cause) == Raise("HTTPError", cause)

\* client.py:203-204 (and 234-235): what the gateway raises for a request that
\* failed in transport, or was answered with an error status
GatewayError(method, cause) ==
    Raise("NetworkError", <<"Network error during ", method, " request: ">> \o cause)

\* `"404" in str(e) or "not found" in str(e).lower()` (client.py:329, 372, 409)
LooksLike404(msg) == Contains(msg, "404") \/ Contains(msg, "Not Found")

\* the ways a request through the gateway fails: how the request ended, the
\* error the gateway raises and the jar afterwards (an error response carries
\* Set-Cookie headers too)
GatewayFailures(method, url, jar) ==
    {[reply |-> Failure(f), error |-> GatewayError(method, TransportMessage(f)),
      jar |-> jar] : f \in TransportFailures}
    \cup {[reply |-> Answer(status, ""),
           error |-> GatewayError(method, StatusMessage(status, url)),
           jar |-> Absorb(jar, sc)] :
            status \in Statuses \ {200}, sc \in SetCookieChoices}

\* direct calls of the gateway: a URL and the caller's cookies argument
GatewayUrls == {<<BASE_URL, "/index.php">>}
CallerCookies == {NoCookies, [c \in {SID} |-> "mine"], [c \in {"style"} |-> "dark"]}

GatewayCall(t, method) ==
    \E url \in GatewayUrls, kw \in CallerCookies :
        /\ Begin(t, IF method = "GET" THEN "_authenticated_get" ELSE "_authenticated_post",
                 [url |-> url, cookies |-> kw])
        /\ Gateway(t, method, url, kw, <<>>, "gateway")
        /\ UNCHANGED <<session, cookies, callers, credentials>>

GatewayFails(t) ==
    /\ pc[t] = "gateway"
    /\ \E f \in GatewayFailures(sent[t][1].method, LastUrl(t), cookies) :
         /\ cookies' = f.jar
         /\ Finish(t, f.error)
         /\ Raises(t, f.error)
         /\ Replied(t, f.reply)
    /\ Completed(t)
    /\ UNCHANGED <<session, callers, credentials, op, arg, sent, login_set, parsed, thanks_link,
                   login_form>>

GatewayResponse(t) ==
    /\ pc[t] = "gateway"
    /\ \E sc \in SetCookieChoices :
         /\ cookies' = Absorb(cookies, sc)
         /\ Finish(t, Return("response"))
    /\ Replied(t, Answer(200, ""))
    /\ Completed(t)
    /\ UNCHANGED <<session, callers, credentials, op, arg, sent, login_set, parsed, thanks_link,
                   login_form, raised>>

gateway(t) ==
    \/ GatewayCall(t, "GET")
    \/ GatewayCall(t, "POST")
    \/ GatewayFails(t)
    \/ GatewayResponse(t)

----------------------------------------------------------------------------
(* The extraction engine (src/mircrew_mcp/parser.py) on the parts of a     *)
(* page each function reads.                                               *)

Min(S) == CHOOSE x \in S : \A y \in S : x <= y

\* first index i >= from with P(s, i), 0 when none
FirstFrom(s, from, P(_, _)) ==
    LET hits == {i \in from..Len(s) : P(s, i)}
    IN  IF hits = {} THEN 0 ELSE Min(hits)

\* the longest run s[from..j] of tokens satisfying Q, as a sequence
RunFrom(s, from, Q(_)) ==
    LET stops == {i \in from..Len(s) : ~Q(s[i])}
    IN  SubSeq(s, from, IF stops = {} THEN Len(s) ELSE Min(stops) - 1)

IsDigitTok(x) == x \in Digits

\* --- parse_search_results (parser.py:11-67) ---

VIEWTOPIC == "viewtopic.php"
OTHER_HOST == "http://other.example/"

\* tokens that end with "/"
EndsWithSlash(x) == x \in {"./", "/", OTHER_HOST}

\* re.compile(r"\.?/viewtopic\.php\?t=\d+").search(href) (parser.py:31)
TopicLinkAt(h, i) ==
    /\ i + 3 <= Len(h)
    /\ EndsWithSlash(h[i]) /\ h[i + 1] = VIEWTOPIC /\ h[i + 2] = "?t=" /\ IsDigitTok(h[i + 3])
IsTopicLink(h) == FirstFrom(h, 1, TopicLinkAt) /= 0

\* re.search(r"[?&]t=(\d+)", href) (parser.py:37): where it matches, 0 when not
TopicIdAt(h, i) == i + 1 <= Len(h) /\ h[i] \in {"?t=", "&t="} /\ IsDigitTok(h[i + 1])
TopicIdIndex(h) == FirstFrom(h, 1, TopicIdAt)
TopicId(h) == RunFrom(h, TopicIdIndex(h) + 1, IsDigitTok)

\* the href as it is written on the page
ResultUrlAsWritten(href, base_url) == href

\* parser.py:48-54
ResultUrl(href, base_url) ==
    LET h == IF startswith(href, <<"./">>) THEN Tail(href) ELSE href
    IN  IF h /= <<>> /\ Head(h) \in {OTHER_HOST, BASE_URL} THEN h ELSE <<base_url, "/">> \o h

\* parser.py:33-62, one anchor after the other
RECURSIVE SearchLoop(_, _, _)
SearchLoop(links, base_url, results) ==
    IF links = <<>> THEN results
    ELSE LET link  == Head(links)
             title == strip(link.text)
             id    == TopicId(link.href)
         IN  IF TopicIdIndex(link.href) = 0 \/ title = <<>>
                  \/ \E i \in 1..Len(results) : results[i].id = id
               THEN SearchLoop(Tail(links), base_url, results)
               ELSE SearchLoop(Tail(links), base_url,
                               Append(results, [id |-> id, title |-> title,
                                                url |-> ResultUrl(link.href, base_url)]))

\* the same, reading the anchors from the last to the first
parse_search_results_backwards(anchors, base_url) ==
    LET links == SelectSeq(anchors, LAMBDA a : IsTopicLink(a.href))
        back  == [i \in 1..Len(links) |-> links[Len(links) + 1 - i]]
    IN  SearchLoop(back, base_url, <<>>)

\* a page is its anchors in document order, each with an href and a text
parse_search_results(anchors, base_url) ==
    SearchLoop(SelectSeq(anchors, LAMBDA a : IsTopicLink(a.href)), base_url, <<>>)

\* the results pages the site answers with
SearchPages ==
    { <<>>,
      << [href |-> <<"./", VIEWTOPIC, "?t=", "7">>, text |-> <<"a", " ">>],
         [href |-> <<"./", VIEWTOPIC, "?t=", "404">>, text |-> <<"a">>] >>,
      << [href |-> <<"./", VIEWTOPIC, "?t=", "7">>, text |-> <<" ">>],
         [href |-> <<OTHER_HOST, VIEWTOPIC, "?t=", "7", "&hilit=x">>, text |-> <<"a">>],
         [href |-> <<"./", VIEWTOPIC, "?t=", "7">>, text |-> <<"7">>] >>,
      << [href |-> <<VIEWTOPIC, "?t=", "7">>, text |-> <<"a">>],
         [href |-> <<"./", "memberlist.php">>, text |-> <<"a">>] >> }

\* --- parse_movie_details (parser.py:70-170): the title, the id and the url ---

SUFFIX == " - MirCrew"

\* re.sub(r"\s*-\s*MirCrew.*$", "", title) (parser.py:101)
IsSuffixAt(s, i) == s[i] = SUFFIX
StripSuffix(s) ==
    LET i == FirstFrom(s, 1, IsSuffixAt) IN IF i = 0 THEN s ELSE SubSeq(s, 1, i - 1)

\* parser.py:88-101. h2 holds the topic-title heading when the page has one
\* (a sequence of one or no heading), with the text of its link when it has
\* one (a sequence of one or no text) and its remaining text; title is the
\* text of the <title> element, empty when the page has none
ResolveTitle(page) ==
    LET fromHeading ==
            IF page.h2 = <<>> THEN <<>>
            ELSE IF page.h2[1].link /= <<>> THEN strip(page.h2[1].link[1])
            ELSE strip(page.h2[1].rest)
    IN  IF fromHeading /= <<>> THEN fromHeading
        ELSE StripSuffix(strip(page.title))

\* the characters \s matches and str.strip() removes
Whitespace == {" ", "\n"}
NotNewline(x) == x /= "\n"

Max(S) == CHOOSE x \in S : \A y \in S : y <= x

\* str.strip() of a text with line breaks
StripText(s) ==
    LET keep == {i \in 1..Len(s) : s[i] \notin Whitespace}
    IN  IF keep = {} THEN <<>> ELSE SubSeq(s, Min(keep), Max(keep))

\* runs of 10, 50 and 51 letters in a post
X10 == "xxxxxxxxxx"
X50 == "50 letters"
X51 == "51 letters"

\* len() of a token and of a text
TokLen(x) ==
    CASE x = X50 -> 50
      [] x = X51 -> 51
      [] x = X10 -> 10
      [] x \in Whitespace -> 1
      [] x \in {"HD"} -> 2
      [] x \in {"1964"} -> 4
      [] x \in {"404"} -> 3
      [] x \in {"Year:", "ANNO:", "Size:", "Drama"} -> 5
      [] x \in {"Genre:"} -> 6
      [] x \in {"genere:"} -> 7
      [] x \in {"Quality:"} -> 8
      [] x \in {"DIMENSIONE:"} -> 11
      [] OTHER -> 1

RECURSIVE CharLen(_)
CharLen(s) == IF s = <<>> THEN 0 ELSE TokLen(Head(s)) + CharLen(Tail(s))

\* the tokens \d{4} matches
FourDigits == {"1964"}

\* the year pattern with the English label only
YearPatternEnglish == [labels |-> {"Year:"}, group |-> "\\d{4}"]

\* the patterns of parser.py:112-115: the labels as a post spells them
\* (re.IGNORECASE) and the group
YearPattern    == [labels |-> {"Year:", "ANNO:"}, group |-> "\\d{4}"]
GenrePattern   == [labels |-> {"Genre:", "genere:"}, group |-> "[^\\n]+"]
QualityPattern == [labels |-> {"Quality:"}, group |-> "[^\\n]+"]
SizePattern    == [labels |-> {"Size:", "DIMENSIONE:"}, group |-> "[^\\n]+"]

\* where the group begins when the label is at i (0: the pattern does not
\* match there): \s* takes all the whitespace after the label, and gives
\* some back when nothing but whitespace follows
GroupStart(text, i, pattern) ==
    LET k    == FirstFrom(text, i + 1, LAMBDA s, n : s[n] \notin Whitespace)
        back == {j \in (i + 1)..Len(text) : text[j] /= "\n"}
    IN  IF pattern.group = "\\d{4}"
          THEN (IF k /= 0 /\ text[k] \in FourDigits THEN k ELSE 0)
        ELSE IF k /= 0 THEN k
        ELSE IF back = {} THEN 0 ELSE Max(back)

\* re.sub(r"\s+", " ", value)
RECURSIVE NormalizeWhitespace(_)
NormalizeWhitespace(s) ==
    IF s = <<>> THEN <<>>
    ELSE IF Head(s) \in Whitespace
      THEN <<" ">> \o NormalizeWhitespace(
                          SubSeq(s, Len(RunFrom(s, 1, LAMBDA x : x \in Whitespace)) + 1, Len(s)))
    ELSE <<Head(s)>> \o NormalizeWhitespace(Tail(s))

\* parser.py:227-244: the value of the field (a sequence of one value), or no
\* value (None)
_extract_field(text, pattern) ==
    LET i == FirstFrom(text, 1,
                       LAMBDA s, n : s[n] \in pattern.labels /\ GroupStart(s, n, pattern) /= 0)
    IN  IF i = 0 THEN <<>>
        ELSE LET j     == GroupStart(text, i, pattern)
                 group == IF pattern.group = "\\d{4}" THEN <<text[j]>>
                          ELSE RunFrom(text, j, NotNewline)
                 value == NormalizeWhitespace(StripText(group))
             IN  IF value /= <<>> THEN <<value>> ELSE <<>>

\* Tag.get_text(strip=True) of an element whose strings are those of nodes:
\* each string stripped, the empty ones left out, joined without separator
RECURSIVE GetText(_)
GetText(nodes) ==
    IF nodes = <<>> THEN <<>> ELSE StripText(Head(nodes).text) \o GetText(Tail(nodes))

\* the same with the div of class postbody looked for first
PostContentPostbodyFirst(page) ==
    IF page.body.postbody /= <<>> THEN page.body.postbody ELSE page.body.content

\* parser.py:103-107: the first div whose class matches "content", else the
\* div of class postbody (each a sequence of one or no element; an element is
\* its strings in order, each in a <p> of its own or not)
PostContent(page) ==
    IF page.body.content /= <<>> THEN page.body.content ELSE page.body.postbody

\* parser.py:109
RawContent(page) ==
    IF PostContent(page) /= <<>> THEN GetText(PostContent(page)[1]) ELSE <<>>

\* where the lines of a text begin (str.split("\n"))
LineStarts(text) == {1} \cup {i + 1 : i \in {n \in 1..Len(text) : text[n] = "\n"}}

\* the same with texts of 50 characters taken as well
DescriptionFrom50(page) ==
    IF PostContent(page) = <<>> THEN <<>>
    ELSE LET paragraphs == SelectSeq(PostContent(page)[1], LAMBDA n : n.p)
             long  == {i \in 1..Len(paragraphs) : CharLen(StripText(paragraphs[i].text)) >= 50}
             raw   == RawContent(page)
             part(b) == StripText(RunFrom(raw, b, NotNewline))
             parts == {b \in LineStarts(raw) : CharLen(part(b)) >= 50}
         IN  IF long /= {} THEN StripText(paragraphs[Min(long)].text)
             ELSE IF parts /= {} THEN part(Min(parts))
             ELSE <<>>

\* parser.py:132-151
Description(page) ==
    IF PostContent(page) = <<>> THEN <<>>
    ELSE LET paragraphs == SelectSeq(PostContent(page)[1], LAMBDA n : n.p)
             long  == {i \in 1..Len(paragraphs) : CharLen(StripText(paragraphs[i].text)) > 50}
             raw   == RawContent(page)
             part(b) == StripText(RunFrom(raw, b, NotNewline))
             parts == {b \in LineStarts(raw) : CharLen(part(b)) > 50}
         IN  IF long /= {} THEN StripText(paragraphs[Min(long)].text)
             ELSE IF parts /= {} THEN part(Min(parts))
             ELSE <<>>

\* the tokens (\d{1,2}/\d{1,2}/\d{4}) matches
Dates == {"1/2/2024"}

\* parser.py:117-130: the author line (a sequence of one or no element) with
\* its username link (a sequence of one or no text) and its text
PostedBy(page) ==
    IF page.author /= <<>> /\ page.author[1].username /= <<>>
      THEN <<StripText(page.author[1].username[1])>>
    ELSE <<>>
PostedDate(page) ==
    IF page.author = <<>> THEN <<>>
    ELSE LET text == page.author[1].text
             i    == FirstFrom(text, 1, LAMBDA s, n : s[n] \in Dates)
         IN  IF i = 0 THEN <<>> ELSE <<text[i]>>

\* the same with a url that does not name the topic
parse_movie_details_no_topic(page, movie_id, base_url) ==
    [ id |-> <<>>, title |-> ResolveTitle(page), url |-> <<base_url, "/viewtopic.php">>,
      description |-> Description(page),
      year |-> <<>>, genre |-> <<>>, quality |-> <<>>, size |-> <<>>,
      posted_by |-> <<>>, posted_date |-> <<>>, raw_content |-> RawContent(page) ]

\* parser.py:84-167. An optional field is a sequence of one value, or of none
\* when it is None
parse_movie_details(page, movie_id, base_url) ==
    [ id |-> movie_id, title |-> ResolveTitle(page),
      url |-> <<base_url, "/viewtopic.php", "?t=">> \o movie_id,
      description |-> Description(page),
      year    |-> _extract_field(RawContent(page), YearPattern),
      genre   |-> _extract_field(RawContent(page), GenrePattern),
      quality |-> _extract_field(RawContent(page), QualityPattern),
      size    |-> _extract_field(RawContent(page), SizePattern),
      posted_by |-> PostedBy(page), posted_date |-> PostedDate(page),
      raw_content |-> RawContent(page) ]

\* `"does not exist" in text.lower() or "not found" in text.lower()`
\* (client.py:310, 377), for the phrase a page carries ("" for neither)
Lower(x) ==
    IF x = "Not Found" THEN "not found"
    ELSE IF x = "Does Not Exist" THEN "does not exist" ELSE x
\* the same test without the lower()
SaysNotFoundExact(page) == page.phrase \in {"does not exist", "not found"}

SaysNotFound(page) == Lower(page.phrase) \in {"does not exist", "not found"}

Phrases == {"", "does not exist", "Not Found"}

\* a post with a metadata line and a paragraph, and a page without a post
NoBody == [content |-> <<>>, postbody |-> <<>>]
APost ==
    [content  |-> << << [p |-> FALSE, text |-> <<"Year:", " ", "1964", "\n">>],
                        [p |-> TRUE, text |-> <<X51>>] >> >>,
     postbody |-> <<>>]
AnAuthor == << [username |-> << <<"a">> >>, text |-> <<"a", " ", "1/2/2024">>] >>

DetailPages ==
    [ phrase : Phrases,
      h2     : {<<>>} \cup {<<h>> : h \in [link : {<<>>, << <<>> >>, << <<"a">> >>},
                                              rest : {<<>>, <<"a", " ">>}]},
      title  : {<<>>, <<"a", SUFFIX>>, <<SUFFIX, "a">>},
      body   : {NoBody, APost},
      author : {AnAuthor} ]

\* --- parse_magnet_link (parser.py:173-224) ---

MAGNET == "magnet:?"
BTIH == "xt=urn:btih:"
HASH == "ABC123"

IsSpaceTok(x) == x \in {" ", "\n"}
\* [^\s]
NonSpace(x) == ~IsSpaceTok(x)
\* [^\s\"'<>]
UrlChar(x) == ~IsSpaceTok(x) /\ x \notin {"\"", "'", "<", ">"}

\* parser.py:191: the first anchor whose href matches ^magnet:\?  (0: none)
MagnetHrefAt(as, i) == startswith(as[i], <<MAGNET>>)

\* parser.py:201: (magnet:\?xt=urn:btih:[a-zA-Z0-9]+[^\s]*) in the text
MagnetTextAt(s, i) == i + 2 <= Len(s) /\ s[i] = MAGNET /\ s[i + 1] = BTIH /\ s[i + 2] = HASH

\* parser.py:211: (magnet:\?[^\s\"'<>]+) in an href
MagnetPartAt(h, i) == i + 1 <= Len(h) /\ h[i] = MAGNET /\ UrlChar(h[i + 1])

\* parser.py:206-213: the first anchor, in order, whose href contains "magnet:"
\* and in which the pattern matches (0: none)
MagnetInHrefAt(as, i) ==
    /\ (Contains(as[i], MAGNET) \/ Contains(as[i], "magnet:"))
    /\ FirstFrom(as[i], 1, MagnetPartAt) /= 0

NotFoundInPage ==
    Raise("ParsingError", <<"Magnet link not found in page. ">>)

\* the same, searching the text before the anchors
parse_magnet_link_text_first(page) ==
    LET t1 == FirstFrom(page.anchors, 1, MagnetHrefAt)
        t2 == FirstFrom(page.text, 1, MagnetTextAt)
    IN  IF t2 /= 0
          THEN Return(<<MAGNET>> \o RunFrom(page.text, t2 + 1, NonSpace))
        ELSE IF t1 /= 0 THEN Return(page.anchors[t1])
        ELSE NotFoundInPage

\* a page is the hrefs of its anchors in document order (empty: an anchor
\* without href) and its flattened text
parse_magnet_link(page) ==
    LET t1 == FirstFrom(page.anchors, 1, MagnetHrefAt)
        t2 == FirstFrom(page.text, 1, MagnetTextAt)
        t3 == FirstFrom(page.anchors, 1, MagnetInHrefAt)
    IN  IF t1 /= 0 THEN Return(page.anchors[t1])
        ELSE IF t2 /= 0
          THEN Return(<<MAGNET>> \o RunFrom(page.text, t2 + 1, NonSpace))
        ELSE IF t3 /= 0
          THEN LET h == page.anchors[t3]
                   i == FirstFrom(h, 1, MagnetPartAt)
               IN  Return(<<MAGNET>> \o RunFrom(h, i + 1, UrlChar))
        ELSE NotFoundInPage

\* the topic pages the site answers the second fetch with
MagnetPages ==
    { [anchors |-> <<>>, text |-> <<>>],
      [anchors |-> << <<"./", VIEWTOPIC>>, <<MAGNET, BTIH, HASH>> >>, text |-> <<>>],
      [anchors |-> << <<>>, <<MAGNET, "dn=x">> >>, text |-> <<MAGNET, BTIH, HASH>>],
      [anchors |-> << <<"magnet:", BTIH, HASH>> >>,
       text    |-> <<"a", " ", MAGNET, BTIH, HASH, "&dn=x", " ", "a">>],
      [anchors |-> << <<"magnet:", BTIH, HASH>>,
                      <<"http://go/?u=", MAGNET, BTIH, HASH, "&tr=y", " ", "x">> >>,
       text    |-> <<MAGNET, "dn=x">>],
      [anchors |-> << <<"magnet:", BTIH, HASH>> >>, text |-> <<"a">>] }

----------------------------------------------------------------------------
(* The functions of parser.py applied to a page on their own. *)

\* the anchors of a results page: hrefs with and without the "./" prefix, on
\* another host, of another kind; texts with letters, digits, or blank
SearchHrefs ==
    { <<"./", VIEWTOPIC, "?t=", "7">>, <<VIEWTOPIC, "?t=", "7">>,
      <<"./", VIEWTOPIC, "?t=", "404", "&hilit=x">>,
      <<OTHER_HOST, VIEWTOPIC, "?t=", "7", "404">>,
      <<"./", "memberlist.php">> }
SearchTexts == { <<"a">>, <<" ", "7", " ">>, <<" ">> }
SearchAnchors == [href : SearchHrefs, text : SearchTexts]

\* the hrefs of the anchors of a topic page (empty: no href) and its texts
MagnetHrefs ==
    { <<>>, <<MAGNET, BTIH, HASH>>, <<MAGNET, "dn=x">>, <<"magnet:", BTIH, HASH>>,
      <<"http://go/?u=", MAGNET, BTIH, HASH, "&tr=y", " ", "x">>, <<"./", VIEWTOPIC>> }
MagnetTexts ==
    { <<>>, <<"a">>, <<MAGNET, "dn=x">>,
      <<"a", " ", MAGNET, BTIH, HASH, "&dn=x", " ", MAGNET, BTIH, HASH>> }

\* the pages given to the three functions
\* a page with nothing on it, as each function reads it
NoDetails == [phrase |-> "", h2 |-> <<>>, title |-> <<>>, body |-> NoBody, author |-> <<>>]

\* the strings of a post: metadata lines in both languages and any case, with
\* a value, without one, or with blanks to normalise; short and long texts
PostStrings ==
    { <<"Year:", " ", "1964">>, <<"ANNO:", "1964", "\n">>, <<"Year:", " ", "404">>,
      <<"genere:", " ", "Drama", " ", " ", "HD", " ">>, <<"Genre:", "\n">>,
      <<"Quality:", "HD", "\n", "Size:", " ", "404">>, <<"DIMENSIONE:">>,
      <<" ", X50, " ">>, <<X51>>, <<X10, "\n", X50, "a", "\n">>, <<" ">> }
PostNodes == [p : BOOLEAN, text : PostStrings]
Posts == SeqsUpTo(PostNodes, MaxNodes)

\* the topic pages given to parse_movie_details on its own
PostPages ==
    {[NoDetails EXCEPT !.title = <<"a">>, !.body = [content |-> c, postbody |-> b],
                       !.author = a] :
        c \in {<<>>} \cup {<<e>> : e \in Posts},
        b \in {<<>>, << <<>> >>, << <<[p |-> TRUE, text |-> <<"Year:", "1964", X51>>]>> >>},
        a \in {<<>>, AnAuthor, << [username |-> <<>>, text |-> <<"a">>] >>}}

NoTopic == [anchors |-> <<>>, text |-> <<>>]
NoDocument == [for |-> "none", results |-> <<>>, details |-> NoDetails, topic |-> NoTopic]

Documents ==
    {[NoDocument EXCEPT !.for = "parse_search_results", !.results = as] :
        as \in SeqsUpTo(SearchAnchors, MaxAnchors)}
    \cup {[NoDocument EXCEPT !.for = "parse_movie_details", !.details = d] :
            d \in DetailPages \cup PostPages}
    \cup {[NoDocument EXCEPT !.for = "parse_magnet_link",
                             !.topic = [anchors |-> as, text |-> x]] :
            as \in SeqsUpTo(MagnetHrefs, MaxAnchors - 1), x \in MagnetTexts}

ParserIdle ==
    /\ document = NoDocument
    /\ extracted = Pending
    /\ earlier = <<>>

\* the id get_movie_details passes to parse_movie_details
DETAILS_ID == <<"7">>

ParseSearchResults ==
    /\ document.for = "parse_search_results" /\ extracted.kind = "pending"
    /\ extracted' = Return(parse_search_results(document.results, BASE_URL))
    /\ UNCHANGED document

ParseMovieDetails ==
    /\ document.for = "parse_movie_details" /\ extracted.kind = "pending"
    /\ extracted' = Return(parse_movie_details(document.details, DETAILS_ID, BASE_URL))
    /\ UNCHANGED document

\* parse_magnet_link keeping what it found the last time
ParseMagnetLinkRemembering ==
    /\ document.for = "parse_magnet_link" /\ extracted.kind = "pending"
    /\ LET found == {n \in 1..Len(earlier) :
                        /\ earlier[n].document.for = "parse_magnet_link"
                        /\ earlier[n].extracted.kind = "return"}
       IN  extracted' = IF found /= {} THEN earlier[Max(found)].extracted
                        ELSE parse_magnet_link(document.topic)
    /\ UNCHANGED document

ParseMagnetLink ==
    /\ document.for = "parse_magnet_link" /\ extracted.kind = "pending"
    /\ extracted' = parse_magnet_link(document.topic)
    /\ UNCHANGED document

\* the pages of a run of calls, one after the other
Replays ==
    {[NoDocument EXCEPT !.for = "parse_search_results", !.results = as] : as \in SearchPages}
    \cup {[NoDocument EXCEPT !.for = "parse_movie_details", !.details = d] :
            d \in {NoDetails, [NoDetails EXCEPT !.title = <<"a", SUFFIX>>, !.body = APost,
                                                !.author = AnAuthor]}}
    \cup {[NoDocument EXCEPT !.for = "parse_magnet_link", !.topic = x] : x \in MagnetPages}

\* the caller goes on to its next call of a function of parser.py
NextCall ==
    /\ extracted.kind /= "pending"
    /\ Len(earlier) + 1 < MaxCalls
    /\ earlier' = Append(earlier, [document |-> document, extracted |-> extracted])
    /\ document' \in Replays
    /\ extracted' = Pending

----------------------------------------------------------------------------
(* search_movie (client.py:237-276). *)

\* the query string as httpx encodes it: a blank becomes %20
Quote(s) == [i \in 1..Len(s) |-> IF s[i] = " " THEN "%20" ELSE s[i]]

SearchUrl(title) ==
    <<BASE_URL, "/search.php", "?keywords=">> \o Quote(strip(title))
    \o <<"&sf=titleonly", "&sr=topics">>

\* the test of client.py:252 without the strip
NoQueryUnstripped(title) == title = <<>>

\* client.py:252: `not title or not title.strip()`
NoQuery(title) == title = <<>> \/ strip(title) = <<>>

\* client.py:252-265: the call, up to the await of the search request
SearchCall(t) ==
    \E title \in Strings :
        /\ Begin(t, "search_movie", title)
        /\ IF NoQuery(title)
             THEN /\ Finish(t, Return(<<>>))
                  /\ sent' = [sent EXCEPT ![t] = <<>>]
                  /\ UNCHANGED raised
             ELSE Gateway(t, "GET", SearchUrl(title), NoCookies, <<>>, "search")
        /\ UNCHANGED <<session, cookies, callers, credentials>>

\* the search request is sent a second time when it fails
SearchFailsRetry(t) ==
    /\ pc[t] = "search"
    /\ \E f \in GatewayFailures("GET", LastUrl(t), cookies) :
         /\ cookies' = f.jar
         /\ Replied(t, f.reply)
         /\ IF Len(sent[t]) < 2
              THEN /\ sent' = [sent EXCEPT ![t] = Append(@, @[1])]
                   /\ UNCHANGED <<pc, outcome, raised>>
              ELSE /\ Finish(t, f.error)
                   /\ Raises(t, f.error)
                   /\ UNCHANGED sent
    /\ Completed(t)
    /\ UNCHANGED <<session, callers, credentials, op, arg, login_set, parsed, thanks_link,
                   login_form>>

\* client.py:265 and 273-274: the gateway raises NetworkError, passed on
SearchFails(t) ==
    /\ pc[t] = "search"
    /\ \E f \in GatewayFailures("GET", LastUrl(t), cookies) :
         /\ cookies' = f.jar
         /\ Finish(t, f.error)
         /\ Raises(t, f.error)
         /\ Replied(t, f.reply)
    /\ Completed(t)
    /\ UNCHANGED <<session, callers, credentials, op, arg, sent, login_set, parsed, thanks_link,
                   login_form>>

\* client.py:265-271: the results page arrives and is parsed
SearchResponse(t) ==
    /\ pc[t] = "search"
    /\ \E page \in SearchPages, sc \in SetCookieChoices :
         /\ cookies' = Absorb(cookies, sc)
         /\ Finish(t, Return(parse_search_results(page, BASE_URL)))
    /\ parsed' = [parsed EXCEPT ![t] = @ \cup {Len(sent[t])}]
    /\ Replied(t, Answer(200, ""))
    /\ Completed(t)
    /\ UNCHANGED <<session, callers, credentials, op, arg, sent, login_set, thanks_link,
                   login_form, raised>>

search_movie(t) ==
    \/ SearchCall(t)
    \/ SearchFails(t)
    \/ SearchResponse(t)

----------------------------------------------------------------------------
(* get_movie_details (client.py:278-337). *)

TopicUrl(id) == <<BASE_URL, "/viewtopic.php", "?t=">> \o id

NotFound(movie_id) ==
    Raise("MovieNotFoundError", <<"Movie with ID ">> \o movie_id \o <<" not found">>)

\* client.py:318-319
NoTitle(movie_id) ==
    Raise("MovieNotFoundError",
          <<"Movie with ID ">> \o movie_id \o <<" not found or has no title">>)

\* the validation without the numeric test of client.py:298
ValidateIdNotEmpty(movie_id) ==
    IF movie_id = <<>> \/ strip(movie_id) = <<>>
      THEN Raise("MovieNotFoundError", <<"Movie ID cannot be empty">>)
    ELSE Pending

\* client.py:294-299 (and 355-360): the failure the id is refused with, or
\* Pending when the id is accepted
ValidateId(movie_id) ==
    IF movie_id = <<>> \/ strip(movie_id) = <<>>
      THEN Raise("MovieNotFoundError", <<"Movie ID cannot be empty">>)
    ELSE IF ~isdigit(strip(movie_id))
      THEN Raise("MovieNotFoundError",
                 <<"Invalid movie ID: ">> \o movie_id \o <<". Movie ID must be numeric.">>)
    ELSE Pending

\* the NetworkError of the gateway passed on as it is
NoRemap(e, movie_id) == e

\* client.py:327-331 (and 370-374, 407-411): a NetworkError of the gateway
\* that reads like a 404 becomes MovieNotFoundError
Remap404(e, movie_id) == IF LooksLike404(e.value) THEN NotFound(movie_id) ELSE e

\* client.py:294-306: the call, up to the await of the topic page
DetailsCall(t) ==
    \E movie_id \in Strings :
        /\ Begin(t, "get_movie_details", movie_id)
        /\ IF ValidateId(movie_id).kind /= "pending"
             THEN /\ Finish(t, ValidateId(movie_id))
                  /\ Raises(t, ValidateId(movie_id))
                  /\ sent' = [sent EXCEPT ![t] = <<>>]
             ELSE Gateway(t, "GET", TopicUrl(strip(movie_id)), NoCookies, <<>>, "details")
        /\ UNCHANGED <<session, cookies, callers, credentials>>

\* the same with the session dropped when the request fails
DetailsFailsLogsOut(t) ==
    /\ pc[t] = "details"
    /\ \E f \in GatewayFailures("GET", LastUrl(t), cookies) :
         /\ cookies' = f.jar
         /\ Finish(t, Remap404(f.error, arg[t]))
         /\ Raises(t, f.error)
         /\ Replied(t, f.reply)
    /\ Completed(t)
    /\ authenticated' = FALSE
    /\ UNCHANGED <<session_id, user_id, autologin_key, callers, credentials, op, arg, sent,
                   login_set, parsed, thanks_link, login_form>>

\* client.py:306 and 327-331
DetailsFails(t) ==
    /\ pc[t] = "details"
    /\ \E f \in GatewayFailures("GET", LastUrl(t), cookies) :
         /\ cookies' = f.jar
         /\ Finish(t, Remap404(f.error, arg[t]))
         /\ Raises(t, f.error)
         /\ Replied(t, f.reply)
    /\ Completed(t)
    /\ UNCHANGED <<session, callers, credentials, op, arg, sent, login_set, parsed, thanks_link,
                   login_form>>

\* the topic page arrives and the parsed details are returned without the test
\* of client.py:318
DetailsResponseUnchecked(t) ==
    /\ pc[t] = "details"
    /\ \E page \in DetailPages, sc \in SetCookieChoices :
         LET details == parse_movie_details(page, strip(arg[t]), BASE_URL) IN
         /\ cookies' = Absorb(cookies, sc)
         /\ Replied(t, Answer(200, page.phrase))
         /\ IF SaysNotFound(page)
              THEN /\ Finish(t, NotFound(arg[t]))
                   /\ Raises(t, NotFound(arg[t]))
                   /\ UNCHANGED parsed
            ELSE /\ parsed' = [parsed EXCEPT ![t] = @ \cup {Len(sent[t])}]
                 /\ Finish(t, Return(details))
                 /\ UNCHANGED raised
    /\ Completed(t)
    /\ UNCHANGED <<session, callers, credentials, op, arg, sent, login_set, thanks_link, login_form>>

\* client.py:306-321: the topic page arrives
DetailsResponse(t) ==
    /\ pc[t] = "details"
    /\ \E page \in DetailPages, sc \in SetCookieChoices :
         LET details == parse_movie_details(page, strip(arg[t]), BASE_URL) IN
         /\ cookies' = Absorb(cookies, sc)
         /\ Replied(t, Answer(200, page.phrase))
         /\ IF SaysNotFound(page)
              THEN /\ Finish(t, NotFound(arg[t]))
                   /\ Raises(t, NotFound(arg[t]))
                   /\ UNCHANGED parsed
            ELSE /\ parsed' = [parsed EXCEPT ![t] = @ \cup {Len(sent[t])}]
                 /\ IF details.title = <<>>
                      THEN /\ Finish(t, NoTitle(arg[t]))
                           /\ Raises(t, NoTitle(arg[t]))
                      ELSE /\ Finish(t, Return(details))
                           /\ UNCHANGED raised
    /\ Completed(t)
    /\ UNCHANGED <<session, callers, credentials, op, arg, sent, login_set, thanks_link, login_form>>

get_movie_details(t) ==
    \/ DetailsCall(t)
    \/ DetailsFails(t)
    \/ DetailsResponse(t)

----------------------------------------------------------------------------
(* get_magnet_link (client.py:339-432). *)

\* the first topic page as get_magnet_link reads it: the not-found phrase and
\* the href of the anchor whose id matches lnk_thanks_post\d+ (a sequence of
\* one or no anchor; an empty href: the anchor has none)
THANKS == "viewtopic.php?p=1&thanks=1"

ThanksPages ==
    [ phrase : Phrases,
      thanks : { <<>>, << <<>> >>, << <<"./", THANKS>> >>, << <<THANKS>> >>,
                 << <<OTHER_HOST, THANKS>> >> } ]

\* client.py:389-394
ThanksUrl(href) ==
    IF Head(href) \in {OTHER_HOST, BASE_URL} THEN href
    ELSE <<BASE_URL, "/">> \o (IF startswith(href, <<"./">>) THEN Tail(href) ELSE href)

\* the httpx error let through as it is, without the handler of
\* client.py:431-432
UnexpectedRaw(cause) == Raise("HTTPError", cause)

Unexpected(cause) ==
    Raise("MirCrewError", <<"Unexpected error during magnet link retrieval: ">> \o cause)

\* client.py:355-369: the call, up to the await of the topic page
MagnetCall(t) ==
    \E movie_id \in Strings :
        /\ Begin(t, "get_magnet_link", movie_id)
        /\ IF ValidateId(movie_id).kind /= "pending"
             THEN /\ Finish(t, ValidateId(movie_id))
                  /\ Raises(t, ValidateId(movie_id))
                  /\ sent' = [sent EXCEPT ![t] = <<>>]
             ELSE Gateway(t, "GET", TopicUrl(strip(movie_id)), NoCookies, <<>>, "magnet_page")
        /\ UNCHANGED <<session, cookies, callers, credentials>>

\* client.py:368-374
MagnetPageFails(t) ==
    /\ pc[t] = "magnet_page"
    /\ \E f \in GatewayFailures("GET", LastUrl(t), cookies) :
         /\ cookies' = f.jar
         /\ Finish(t, Remap404(f.error, strip(arg[t])))
         /\ Raises(t, f.error)
         /\ Replied(t, f.reply)
    /\ Completed(t)
    /\ UNCHANGED <<session, callers, credentials, op, arg, sent, login_set, parsed, thanks_link,
                   login_form>>

\* the topic page arrives and the thanks request is not awaited: the page is
\* fetched again at once
MagnetPageEager(t) ==
    /\ pc[t] = "magnet_page"
    /\ \E page \in ThanksPages, sc \in SetCookieChoices :
         /\ cookies' = Absorb(cookies, sc)
         /\ thanks_link' = [thanks_link EXCEPT ![t] =
                               IF SaysNotFound(page) THEN <<>> ELSE page.thanks]
         /\ Replied(t, Answer(200, page.phrase))
         /\ IF SaysNotFound(page)
              THEN /\ Finish(t, NotFound(strip(arg[t])))
                   /\ Raises(t, NotFound(strip(arg[t])))
                   /\ UNCHANGED sent
            ELSE IF page.thanks /= <<>> /\ page.thanks[1] /= <<>>
              THEN Gateway(t, "GET", TopicUrl(strip(arg[t])), NoCookies,
                           Append(sent[t], Request("GET", ThanksUrl(page.thanks[1]),
                                                   AuthCookies, None)),
                           "magnet_refetch")
            ELSE Gateway(t, "GET", TopicUrl(strip(arg[t])), NoCookies, sent[t],
                         "magnet_refetch")
    /\ Completed(t)
    /\ UNCHANGED <<session, callers, credentials, op, arg, login_set, parsed, login_form>>

\* client.py:369-406: the topic page arrives; the thanks link, when there is
\* one, is followed, else the page is fetched again
MagnetPage(t) ==
    /\ pc[t] = "magnet_page"
    /\ \E page \in ThanksPages, sc \in SetCookieChoices :
         /\ cookies' = Absorb(cookies, sc)
         /\ thanks_link' = [thanks_link EXCEPT ![t] =
                               IF SaysNotFound(page) THEN <<>> ELSE page.thanks]
         /\ Replied(t, Answer(200, page.phrase))
         /\ IF SaysNotFound(page)
              THEN /\ Finish(t, NotFound(strip(arg[t])))
                   /\ Raises(t, NotFound(strip(arg[t])))
                   /\ UNCHANGED sent
            ELSE IF page.thanks /= <<>> /\ page.thanks[1] /= <<>>
              THEN /\ sent' = [sent EXCEPT ![t] =
                                 Append(@, Request("GET", ThanksUrl(page.thanks[1]),
                                                   AuthCookies, None))]
                   /\ pc' = [pc EXCEPT ![t] = "magnet_thanks"]
                   /\ UNCHANGED <<outcome, raised>>
            ELSE Gateway(t, "GET", TopicUrl(strip(arg[t])), NoCookies, sent[t],
                         "magnet_refetch")
    /\ Completed(t)
    /\ UNCHANGED <<session, callers, credentials, op, arg, login_set, parsed, login_form>>

\* client.py:398 and 431-432: the thanks request fails in transport; the
\* httpx error is none of the typed failures
MagnetThanksFails(t) ==
    /\ pc[t] = "magnet_thanks"
    /\ \E f \in TransportFailures :
         /\ Finish(t, Unexpected(TransportMessage(f)))
         /\ Raises(t, Raise(f, TransportMessage(f)))
         /\ Replied(t, Failure(f))
    /\ Completed(t)
    /\ UNCHANGED <<session, cookies, callers, credentials, op, arg, sent, login_set, parsed, thanks_link,
                   login_form>>

\* the thanks request is answered and the call ends without the second fetch
MagnetThanksStops(t) ==
    /\ pc[t] = "magnet_thanks"
    /\ \E status \in Statuses, sc \in SetCookieChoices :
         /\ cookies' = Absorb(cookies, sc)
         /\ Replied(t, Answer(status, ""))
    /\ Finish(t, NotFoundInPage)
    /\ Raises(t, NotFoundInPage)
    /\ Completed(t)
    /\ UNCHANGED <<session, callers, credentials, op, arg, sent, login_set, parsed, thanks_link,
                   login_form>>

\* client.py:398-406: the thanks request is answered (its status is not
\* looked at) and the topic page is fetched again
MagnetThanksResponse(t) ==
    /\ pc[t] = "magnet_thanks"
    /\ \E status \in Statuses, sc \in SetCookieChoices :
         /\ cookies' = Absorb(cookies, sc)
         /\ Replied(t, Answer(status, ""))
    /\ Gateway(t, "GET", TopicUrl(strip(arg[t])), NoCookies, sent[t], "magnet_refetch")
    /\ Completed(t)
    /\ UNCHANGED <<session, callers, credentials, op, arg, login_set, parsed, thanks_link, login_form>>

\* client.py:405-411
MagnetRefetchFails(t) ==
    /\ pc[t] = "magnet_refetch"
    /\ \E f \in GatewayFailures("GET", LastUrl(t), cookies) :
         /\ cookies' = f.jar
         /\ Finish(t, Remap404(f.error, strip(arg[t])))
         /\ Raises(t, f.error)
         /\ Replied(t, f.reply)
    /\ Completed(t)
    /\ UNCHANGED <<session, callers, credentials, op, arg, sent, login_set, parsed, thanks_link,
                   login_form>>

\* the value of parse_magnet_link returned without the test of client.py:418
UncheckedMagnet(found) == found

\* client.py:417-421: the value of parse_magnet_link is returned when it has
\* the magnet prefix
CheckedMagnet(found) ==
    IF found.kind /= "return" THEN found
    ELSE IF ~startswith(found.value, <<MAGNET>>)
      THEN Raise("ParsingError", <<"Invalid magnet URI format: ">> \o found.value)
    ELSE Return(found.value)

\* client.py:406-421: the page fetched again arrives and is parsed
MagnetRefetch(t) ==
    /\ pc[t] = "magnet_refetch"
    /\ \E page \in MagnetPages, sc \in SetCookieChoices :
         LET found == parse_magnet_link(page)
             out   == CheckedMagnet(found)
         IN  /\ cookies' = Absorb(cookies, sc)
             /\ Finish(t, out)
             /\ Raises(t, IF found.kind /= "return" THEN found
                          ELSE IF out.kind /= "return" THEN out ELSE Pending)
    /\ parsed' = [parsed EXCEPT ![t] = @ \cup {Len(sent[t])}]
    /\ Replied(t, Answer(200, ""))
    /\ Completed(t)
    /\ UNCHANGED <<session, callers, credentials, op, arg, sent, login_set, thanks_link, login_form>>

get_magnet_link(t) ==
    \/ MagnetCall(t)
    \/ MagnetPageFails(t)
    \/ MagnetPage(t)
    \/ MagnetThanksFails(t)
    \/ MagnetThanksResponse(t)
    \/ MagnetRefetchFails(t)
    \/ MagnetRefetch(t)

----------------------------------------------------------------------------
(* close (client.py:434-436). *)

\* a close that drops the credentials with the connection
CloseForgets(t) ==
    /\ t \in callers
    /\ \A u \in Tasks : pc[u] = "idle"
    /\ callers' = {}
    /\ username' = None /\ password' = None
    /\ UNCHANGED <<session, cookies, op, pc, arg, sent, login_set, answered,
                   thanks_link, parsed, outcome, replies, login_form, raised>>

\* the coroutine that holds the client closes it when no call is running; a
\* closed client is not used again
Close(t) ==
    /\ t \in callers
    /\ \A u \in Tasks : pc[u] = "idle"
    /\ callers' = {}
    /\ UNCHANGED <<session, credentials, cookies, op, pc, arg, sent, login_set, answered,
                   thanks_link, parsed, outcome, replies, login_form, raised>>

----------------------------------------------------------------------------
(* The constructor (client.py:24-63). *)

\* `x or y`
Or(x, y) == IF Truthy(x) THEN x ELSE y

MissingCredentials ==
    Raise("AuthenticationError",
          <<"Missing credentials. Please set MIRCREW_USERNAME and MIRCREW_PASSWORD ",
            "environment variables or provide them to the constructor.">>)

\* the constructor without the test of client.py:38
MirCrewClientUnchecked(u, p, env) ==
    Return([ username |-> Or(u, env.MIRCREW_USERNAME),
             password |-> Or(p, env.MIRCREW_PASSWORD),
             cookies |-> [c \in CookieNames |-> None],
             session_id |-> None, user_id |-> None, autologin_key |-> None,
             authenticated |-> FALSE ])

\* the object MirCrewClient(u, p) builds when the environment is env, or the
\* failure it raises
MirCrewClient(u, p, env) ==
    LET name == Or(u, env.MIRCREW_USERNAME)
        word == Or(p, env.MIRCREW_PASSWORD)
    IN  IF ~Truthy(name) \/ ~Truthy(word) THEN MissingCredentials
        ELSE Return([ username |-> name, password |-> word,
                      cookies |-> [c \in CookieNames |-> None],
                      session_id |-> None, user_id |-> None, autologin_key |-> None,
                      authenticated |-> FALSE ])

\* what the environment can hold for each of the two variables
EnvValues == {None, "", USERNAME}
Environments == [MIRCREW_USERNAME : EnvValues, MIRCREW_PASSWORD : {None, PASSWORD}]

----------------------------------------------------------------------------
(* authenticate (client.py:65-157) as a step on a client object given as a *)
(* value: each step gives the object afterwards and the outcome of the     *)
(* call, Pending while the call goes on.                                   *)

AuthNetworkError(cause) ==
    Raise("NetworkError", <<"Network error during authentication: ">> \o cause)

\* client.py:79-131: the login-page GET is awaited, up to the credentials POST
LoginPageStep(o) ==
    {[obj |-> o, out |-> AuthNetworkError(TransportMessage(f))] : f \in TransportFailures}
    \cup
    {[obj |-> [o EXCEPT !.cookies = Absorb(@, sc)],
      out |-> AuthNetworkError(StatusMessage(status, <<BASE_URL, "/index.php">>))] :
        status \in Statuses \ {200}, sc \in SetCookieChoices}
    \cup
    {[obj |-> [o EXCEPT !.cookies = Absorb(@, sc)],
      out |-> IF TokensMissing(page) THEN NoFormTokens
              ELSE IF page.form_action = <<>>
                THEN Raise("AuthenticationError", <<"Login form not found on the page">>)
              ELSE IF InvalidURL(LoginUrl(page.form_action))
                THEN Raise("MirCrewError",
                           <<"Unexpected error during authentication: ",
                             "Invalid non-printable ASCII character in URL">>)
              ELSE Pending] :
        page \in LoginPages, sc \in SetCookieChoices}

\* client.py:124-157: the credentials POST is awaited, to the end of the call
LoginPostStep(o) ==
    {[obj |-> o, out |-> AuthNetworkError(TransportMessage(f))] : f \in TransportFailures}
    \cup
    {LET jar == Absorb(o.cookies, sc)
         read == [o EXCEPT !.cookies = jar, !.session_id = jar[SID],
                           !.user_id = jar[UID], !.autologin_key = jar[KEY]]
     IN  IF LoginRejected(jar[SID], jar[UID], jar[KEY])
           THEN [obj |-> read,
                 out |-> Raise("AuthenticationError",
                               <<"Authentication failed. Please check your credentials.">>)]
           ELSE [obj |-> [read EXCEPT !.authenticated = TRUE], out |-> Return(TRUE)] :
        sc \in SetCookieChoices}

----------------------------------------------------------------------------
(* The server's shared client: get_client (__main__.py:28-63), called by   *)
(* the tool coroutines, each split at the awaits of its handshake.         *)

\* the client objects that can be referred to at one time: one by _client and
\* one by each coroutine
Ids == {"c1", "c2", "c3"}

IdleTool == [pc |-> "idle", self |-> None, out |-> Pending, raced |-> FALSE]

ServerIdle ==
    /\ _client = None
    /\ objects = [i \in Ids |-> <<>>]
    /\ tool = [t \in Tasks |-> IdleTool]

\* objects nothing refers to any more are gone
Referred(glob, tl) ==
    {glob} \cup {tl[t].self : t \in Tasks}
    \cup {tl[t].out.value : t \in {u \in Tasks : tl[u].out.kind = "return"}}
Collect(objs, glob, tl) ==
    [i \in Ids |-> IF i \in Referred(glob, tl) THEN objs[i] ELSE <<>>]

InFlight(t) == tool[t].pc \in {"login_page", "login_post"}

\* __main__.py:50-60: what get_client raises for a failure e of its try block
GetClientFailure(e) ==
    IF e.kind = "AuthenticationError"
      THEN Raise("AuthenticationError",
                 <<"Failed to authenticate with MirCrew: ">> \o e.value
                 \o <<". Please ensure MIRCREW_USERNAME and MIRCREW_PASSWORD ",
                      "environment variables are set.">>)
      ELSE Raise("MirCrewError", <<"Failed to initialize MirCrew client: ">> \o e.value)

\* the end of a get_client call whose handlers leave _client as it is
GetClientEndsKeeps(t, objs, out) ==
    LET mine == [tool[t] EXCEPT !.pc = "done", !.self = None,
                                !.out = IF out.kind = "return" THEN Return(_client)
                                        ELSE GetClientFailure(out)]
        tl   == [tool EXCEPT ![t] = mine]
    IN  /\ UNCHANGED _client
        /\ tool' = tl
        /\ objects' = Collect(objs, _client, tl)

\* the end of a get_client call: `return _client` (__main__.py:63) after a
\* successful try block, else the handlers of __main__.py:51-61
GetClientEnds(t, objs, out) ==
    LET glob == IF out.kind = "return" THEN _client ELSE None
        mine == [tool[t] EXCEPT !.pc = "done", !.self = None,
                                !.out = IF out.kind = "return" THEN Return(_client)
                                        ELSE GetClientFailure(out)]
        tl   == [tool EXCEPT ![t] = mine]
    IN  /\ _client' = glob
        /\ tool' = tl
        /\ objects' = Collect(objs, glob, tl)

\* __main__.py:43-49: the test of the shared client, the construction of a new
\* one and its authenticate() up to the first await
GetClientCall(t) ==
    /\ tool[t].pc = "idle"
    /\ IF _client /= None /\ objects[_client][1].authenticated
         THEN GetClientEnds(t, objects, Return(TRUE))
         ELSE LET built == MirCrewClient(None, None, environ)
                  id    == CHOOSE i \in Ids : i \notin Referred(None, tool)
                  race  == \E u \in Tasks : InFlight(u)
                  tl    == [u \in Tasks |->
                              IF u = t THEN [pc |-> "login_page", self |-> id,
                                             out |-> Pending, raced |-> race]
                              ELSE IF InFlight(u) THEN [tool[u] EXCEPT !.raced = TRUE]
                              ELSE tool[u]]
              IN  IF built.kind /= "return"
                    THEN GetClientEnds(t, objects, built)
                    ELSE /\ _client' = id
                         /\ tool' = tl
                         /\ objects' = Collect([objects EXCEPT ![id] = <<built.value>>],
                                               id, tl)
    /\ UNCHANGED environ

\* __main__.py:49: the login page of the coroutine's client arrives, or fails
GetClientLoginPage(t) ==
    /\ tool[t].pc = "login_page"
    /\ \E r \in LoginPageStep(objects[tool[t].self][1]) :
         LET objs == [objects EXCEPT ![tool[t].self] = <<r.obj>>] IN
         IF r.out.kind = "pending"
           THEN /\ objects' = objs
                /\ tool' = [tool EXCEPT ![t].pc = "login_post"]
                /\ UNCHANGED _client
           ELSE GetClientEnds(t, objs, r.out)
    /\ UNCHANGED environ

\* __main__.py:49-63: the credentials POST of the coroutine's client is
\* answered, or fails; get_client returns _client or raises
GetClientLoginResponse(t) ==
    /\ tool[t].pc = "login_post"
    /\ \E r \in LoginPostStep(objects[tool[t].self][1]) :
         GetClientEnds(t, [objects EXCEPT ![tool[t].self] = <<r.obj>>], r.out)
    /\ UNCHANGED environ

\* the tool that called get_client has finished with the client it got
ToolEnds(t) ==
    /\ tool[t].pc = "done"
    /\ LET tl == [tool EXCEPT ![t] = IdleTool] IN
         /\ tool' = tl
         /\ objects' = Collect(objects, _client, tl)
    /\ UNCHANGED <<_client, environ>>

get_client(t) ==
    \/ GetClientCall(t)
    \/ GetClientLoginPage(t)
    \/ GetClientLoginResponse(t)
    \/ ToolEnds(t)

----------------------------------------------------------------------------
(* The client after construction (client.py:59-63), used by one coroutine, *)
(* and the server before its first tool call.                              *)

ClientIdle ==
    /\ session_id = None
    /\ user_id = None
    /\ autologin_key = None
    /\ authenticated = FALSE
    /\ username = USERNAME
    /\ password = PASSWORD
    /\ cookies = [c \in CookieNames |-> None]
    /\ callers = {"t1"}
    /\ op = [t \in Tasks |-> "none"]
    /\ pc = [t \in Tasks |-> "idle"]
    /\ arg = [t \in Tasks |-> <<>>]
    /\ sent = [t \in Tasks |-> <<>>]
    /\ login_set = [t \in Tasks |-> {}]
    /\ answered = [t \in Tasks |-> 0]
    /\ thanks_link = [t \in Tasks |-> <<>>]
    /\ parsed = [t \in Tasks |-> {}]
    /\ outcome = [t \in Tasks |-> Pending]
    /\ replies = [t \in Tasks |-> <<>>]
    /\ login_form = [t \in Tasks |-> NoForm]
    /\ raised = [t \in Tasks |-> Pending]

Init ==
    /\ ClientIdle
    /\ ServerIdle
    /\ environ = [MIRCREW_USERNAME |-> USERNAME, MIRCREW_PASSWORD |-> PASSWORD]
    /\ ParserIdle

Next ==
    /\ \E t \in Tasks :
          \/ authenticate(t)
          \/ gateway(t)
          \/ search_movie(t)
          \/ get_movie_details(t)
          \/ get_magnet_link(t)
          \/ Resume(t)
          \/ Close(t)
    /\ UNCHANGED <<server, extraction>>

Spec == Init /\ [][Next]_vars

\* the server with its tool coroutines, in whatever environment it starts
ServerInit ==
    /\ ClientIdle
    /\ ServerIdle
    /\ environ \in Environments
    /\ ParserIdle

ServerNext ==
    /\ \E t \in Tasks : get_client(t)
    /\ UNCHANGED <<session, credentials, cookies, callers, op, pc, arg, sent, login_set,
                   answered, thanks_link, parsed, outcome, replies, login_form, raised,
                   extraction>>

ServerSpec == ServerInit /\ [][ServerNext]_vars

\* a function of parser.py applied to a page
ParserInit ==
    /\ ClientIdle
    /\ ServerIdle
    /\ environ = [MIRCREW_USERNAME |-> USERNAME, MIRCREW_PASSWORD |-> PASSWORD]
    /\ document \in Documents
    /\ extracted = Pending
    /\ earlier = <<>>

ParserNext ==
    /\ \/ ParseSearchResults
       \/ ParseMovieDetails
       \/ ParseMagnetLink
    /\ UNCHANGED <<session, credentials, cookies, callers, op, pc, arg, sent, login_set,
                   answered, thanks_link, parsed, outcome, replies, login_form, raised,
                   server, earlier>>

ParserSpec == ParserInit /\ [][ParserNext]_vars

\* the functions of parser.py called one after the other
ReplayInit ==
    /\ ClientIdle
    /\ ServerIdle
    /\ environ = [MIRCREW_USERNAME |-> USERNAME, MIRCREW_PASSWORD |-> PASSWORD]
    /\ document \in Replays
    /\ extracted = Pending
    /\ earlier = <<>>

ReplayNext ==
    /\ \/ (ParseSearchResults \/ ParseMovieDetails \/ ParseMagnetLink) /\ UNCHANGED earlier
       \/ NextCall
    /\ UNCHANGED <<session, credentials, cookies, callers, op, pc, arg, sent, login_set,
                   answered, thanks_link, parsed, outcome, replies, login_form, raised,
                   server>>

ReplaySpec == ReplayInit /\ [][ReplayNext]_vars

----------------------------------------------------------------------------
(* Properties of the session and of authenticate. *)

\* a token is set when it holds a non-empty value
IsSet(x) == Truthy(x)

Ended(t, method) == op[t] = method /\ pc[t] = "done"
Failed(t) == outcome[t].kind \in ErrorKinds
Succeeded(t) == outcome[t].kind = "return"

\* C1: in every reachable state, authenticated is true if and only if
\* session_id, user_id and autologin_key are all set and user_id is not "1".
C1_AuthenticatedIffTokens ==
    authenticated <=>
        (IsSet(session_id) /\ IsSet(user_id) /\ IsSet(autologin_key) /\ user_id /= "1")

\* C2: whenever authenticate() has failed, with whatever error and from
\* whatever state, the three tokens are unset and authenticated is false.
C2_FailureClearsSession ==
    \A t \in Tasks :
        (Ended(t, "authenticate") /\ Failed(t)) =>
            /\ ~IsSet(session_id) /\ ~IsSet(user_id) /\ ~IsSet(autologin_key)
            /\ ~authenticated

\* C3: in every reachable state the three tokens are all set or all unset.
C3_TokensTogether ==
    \/ IsSet(session_id) /\ IsSet(user_id) /\ IsSet(autologin_key)
    \/ ~IsSet(session_id) /\ ~IsSet(user_id) /\ ~IsSet(autologin_key)

\* the credentials POST of the call was answered (it did not fail in transport)
PostAnswered(t) ==
    /\ Ended(t, "authenticate")
    /\ Len(sent[t]) = 2
    /\ outcome[t].kind /= "NetworkError"

\* C4: once the credentials POST has been answered, authenticate() returns
\* success if and only if the three cookies are all present and the user id
\* is not "1", and fails with AuthenticationError in every other case.
C4_SuccessIffThreeCookies ==
    \A t \in Tasks :
        PostAnswered(t) =>
            IF /\ IsSet(cookies[SID]) /\ IsSet(cookies[UID]) /\ IsSet(cookies[KEY])
               /\ cookies[UID] /= "1"
              THEN Succeeded(t)
              ELSE outcome[t].kind = "AuthenticationError"

\* C5: a handshake whose login response sets no session cookie never
\* succeeds, whatever cookies earlier responses left in the jar.
C5_SuccessNeedsLoginCookies ==
    \A t \in Tasks :
        (Ended(t, "authenticate") /\ Succeeded(t)) => login_set[t] /= {}

----------------------------------------------------------------------------
(* Properties of the gateway and of the operations. *)

GatewayOps == {"_authenticated_get", "_authenticated_post"}

\* C6: _authenticated_get and _authenticated_post, called while authenticated
\* is false, raise AuthenticationError, send no request and start no login
\* handshake (the session and the jar stay as they were).
C6_GatewayRefusesUnauthenticated ==
    [][ \A t \in Tasks :
          (pc[t] = "idle" /\ op'[t] \in GatewayOps /\ ~authenticated) =>
              /\ pc'[t] = "done"
              /\ outcome'[t].kind = "AuthenticationError"
              /\ sent'[t] = <<>>
              /\ session' = session /\ cookies' = cookies ]_vars

C6_Witness ==
    \E t \in Tasks :
        /\ Ended(t, "_authenticated_post") /\ ~authenticated
        /\ outcome[t].kind = "AuthenticationError" /\ sent[t] = <<>>

\* C7: for every empty or whitespace-only title, search_movie returns an empty
\* list and sends no request, whether or not the client is authenticated.
C7_BlankTitleNoRequest ==
    \A t \in Tasks :
        (op[t] = "search_movie" /\ strip(arg[t]) = <<>>) =>
            /\ pc[t] = "done"
            /\ Succeeded(t) /\ outcome[t].value = <<>>
            /\ sent[t] = <<>> /\ answered[t] = 0

C7_Witness ==
    \E t \in Tasks :
        /\ Ended(t, "search_movie") /\ arg[t] = <<" ", " ">>
        /\ authenticated /\ Succeeded(t)

IdOps == {"get_movie_details", "get_magnet_link"}

RefusedBeforeRequest(t) ==
    /\ pc[t] = "done"
    /\ outcome[t].kind = "MovieNotFoundError"
    /\ sent[t] = <<>> /\ answered[t] = 0

\* C8 as stated: for every movie_id that is empty, whitespace-only or not all
\* digits, get_movie_details and get_magnet_link raise MovieNotFoundError
\* before any request is sent.
C8_NonDigitIdRefused ==
    \A t \in Tasks :
        (/\ op[t] \in IdOps
         /\ \/ strip(arg[t]) = <<>>
            \/ \E i \in 1..Len(arg[t]) : arg[t][i] \notin Digits) =>
            RefusedBeforeRequest(t)

\* C8 as amended: for every movie_id that is empty, whitespace-only or, once
\* its leading and trailing whitespace is removed, not all digits,
\* get_movie_details and get_magnet_link raise MovieNotFoundError before any
\* request is sent, whether or not the client is authenticated.
C8_StrippedNonDigitIdRefused ==
    \A t \in Tasks :
        (op[t] \in IdOps /\ ~isdigit(strip(arg[t]))) => RefusedBeforeRequest(t)

C8_Witness ==
    \E t \in Tasks :
        /\ Ended(t, "get_magnet_link") /\ arg[t] = <<"7", "a">>
        /\ authenticated /\ outcome[t].kind = "MovieNotFoundError"

IsTopicRequest(t, i) == sent[t][i].url = TopicUrl(strip(arg[t]))
HasHref(link) == link /= <<>> /\ link[1] /= <<>>

\* C9: in get_magnet_link the requests go out one after another, each after
\* the one before has completed: the topic page, then the thanks request
\* exactly when a thanks anchor with an href was found, then the topic page
\* again; only the response to that last request is parsed for the magnet URI.
C9_MagnetRequestsInOrder ==
    \A t \in Tasks :
        op[t] = "get_magnet_link" =>
            LET n == Len(sent[t]) IN
            /\ n <= 3
            /\ n <= answered[t] + 1
            /\ n >= 1 => IsTopicRequest(t, 1)
            /\ n >= 2 =>
                 IF HasHref(thanks_link[t])
                   THEN /\ sent[t][2].url = ThanksUrl(thanks_link[t][1])
                        /\ n = 3 => IsTopicRequest(t, 3)
                   ELSE n = 2 /\ IsTopicRequest(t, 2)
            /\ parsed[t] /= {} =>
                 /\ parsed[t] = {n} /\ n >= 2 /\ IsTopicRequest(t, n)
                 /\ HasHref(thanks_link[t]) => n = 3
                 /\ answered[t] = n
            /\ Succeeded(t) => parsed[t] /= {}

C9_Witness ==
    \E t \in Tasks :
        /\ Ended(t, "get_magnet_link") /\ Succeeded(t)
        /\ Len(sent[t]) = 3 /\ answered[t] = 3 /\ parsed[t] = {3}

\* values a parse of a page could hand to the check of client.py:418
ParsedSamples ==
    { <<>>, <<"magnet:", BTIH, HASH>>, <<"http://go/?u=", MAGNET, BTIH, HASH>>,
      <<MAGNET, BTIH, HASH>>, <<MAGNET, "dn=x">> }

\* C10: every value get_magnet_link returns starts with "magnet:?", and a
\* parsed value that does not is answered with ParsingError, not returned.
C10_ReturnedMagnetHasPrefix ==
    /\ \A t \in Tasks :
          (Ended(t, "get_magnet_link") /\ Succeeded(t)) =>
              startswith(outcome[t].value, <<MAGNET>>)
    /\ \A v \in ParsedSamples :
          CheckedMagnet(Return(v)).kind =
              IF startswith(v, <<MAGNET>>) THEN "return" ELSE "ParsingError"

C10_Witness ==
    \E t \in Tasks :
        /\ Ended(t, "get_magnet_link") /\ Succeeded(t)
        /\ outcome[t].value = <<MAGNET, BTIH, HASH, "&tr=y">>

----------------------------------------------------------------------------
(* Properties of the failures of the operations. *)

LastReply(t) == replies[t][Len(replies[t])]

\* request i of the running call is the thanks request of get_magnet_link
IsThanksRequest(t, i) ==
    op[t] = "get_magnet_link" /\ i = 2 /\ HasHref(thanks_link[t])

\* C11: when a topic-page request is answered with status 404,
\* get_movie_details fails with MovieNotFoundError, and so does
\* get_magnet_link for its first fetch and for its re-fetch; the call ends
\* there and the caller does not see NetworkError.
C11_Status404IsNotFound ==
    \A t \in Tasks :
        op[t] \in IdOps =>
            \A i \in 1..Len(replies[t]) :
                (replies[t][i].status = 404 /\ ~IsThanksRequest(t, i)) =>
                    /\ pc[t] = "done" /\ Len(sent[t]) = i
                    /\ outcome[t].kind = "MovieNotFoundError"

C11_Witness ==
    \E t \in Tasks :
        /\ Ended(t, "get_magnet_link") /\ Len(replies[t]) = 3
        /\ replies[t][3].status = 404
        /\ outcome[t].kind = "MovieNotFoundError"

\* the topic-page request that ended the call failed for a reason other than
\* a 404 answer: a connection failure, a timeout or another error status
FailedOtherThan404(t) ==
    /\ op[t] \in IdOps /\ pc[t] = "done"
    /\ replies[t] /= <<>> /\ Len(replies[t]) = Len(sent[t])
    /\ ~IsThanksRequest(t, Len(replies[t]))
    /\ \/ LastReply(t).failure /= ""
       \/ LastReply(t).status \notin {200, 404}

\* C12: for every valid id, a topic-page request of get_movie_details or
\* get_magnet_link that fails for a reason other than a 404 answer makes the
\* operation fail with NetworkError, never with MovieNotFoundError.
C12_OtherFailuresAreNetworkError ==
    \A t \in Tasks :
        FailedOtherThan404(t) => outcome[t].kind = "NetworkError"

\* C13: in get_movie_details and in the first fetch of get_magnet_link, a
\* body that contains "does not exist" or "not found" in any letter case makes
\* the operation fail with MovieNotFoundError; the page is not parsed, and
\* get_magnet_link sends neither the thanks request nor the re-fetch.
C13_NotFoundPhraseSkipsParsing ==
    \A t \in Tasks :
        (/\ op[t] \in IdOps /\ replies[t] /= <<>>
         /\ replies[t][1].status = 200
         /\ Lower(replies[t][1].phrase) \in {"does not exist", "not found"}) =>
            /\ pc[t] = "done" /\ outcome[t].kind = "MovieNotFoundError"
            /\ parsed[t] = {} /\ Len(sent[t]) = 1 /\ thanks_link[t] = <<>>

C13_Witness ==
    \E t \in Tasks :
        /\ Ended(t, "get_magnet_link") /\ replies[t] /= <<>>
        /\ replies[t][1].phrase = "Not Found"
        /\ outcome[t].kind = "MovieNotFoundError" /\ parsed[t] = {}

\* C14: get_movie_details never returns details whose title is empty: a page
\* that parses to an empty title ends the call with MovieNotFoundError.
C14_NoEmptyTitle ==
    \A t \in Tasks :
        (Ended(t, "get_movie_details") /\ parsed[t] /= {}) =>
            IF Succeeded(t)
              THEN outcome[t].value.title /= <<>>
              ELSE outcome[t] = NoTitle(arg[t])

C14_Witness ==
    \E t \in Tasks :
        /\ Ended(t, "get_movie_details") /\ parsed[t] = {1}
        /\ outcome[t].kind = "MovieNotFoundError"
        /\ Contains(outcome[t].value, " not found or has no title")

\* C15: when the login page has no form_token input or no creation_time
\* input, or either has an empty value, authenticate() fails with an
\* AuthenticationError whose message mentions "form tokens", and the
\* credentials POST is not sent.
C15_MissingFormTokens ==
    \A t \in Tasks :
        (/\ op[t] = "authenticate" /\ replies[t] /= <<>>
         /\ replies[t][1].status = 200
         /\ \/ ~IsSet(login_form[t].form_token)
            \/ ~IsSet(login_form[t].creation_time)) =>
            /\ pc[t] = "done" /\ outcome[t].kind = "AuthenticationError"
            /\ Contains(outcome[t].value, "form tokens")
            /\ \A i \in 1..Len(sent[t]) : sent[t][i].method /= "POST"

C15_Witness ==
    \E t \in Tasks :
        /\ Ended(t, "authenticate")
        /\ login_form[t].form_token = "ft" /\ login_form[t].creation_time = ""
        /\ outcome[t].kind = "AuthenticationError" /\ Len(sent[t]) = 1

\* request i of the running call failed in transport, or was answered with a
\* status other than 200
FailedRequest(t, i) ==
    replies[t][i].failure /= "" \/ replies[t][i].status /= 200

\* C16: a failure of the login-page GET or of the credentials POST, an error
\* status answered to either included, makes authenticate() fail with
\* NetworkError; authenticate() ends with success, AuthenticationError or
\* NetworkError and nothing else.
C16_HandshakeFailuresAreNetworkErrors ==
    \A t \in Tasks :
        Ended(t, "authenticate") =>
            /\ outcome[t].kind \in {"return", "AuthenticationError", "NetworkError"}
            /\ FailedRequest(t, Len(replies[t])) => outcome[t].kind = "NetworkError"

\* the message of the transport error behind a reply to a request for url
CauseOf(r, url) ==
    IF r.failure /= "" THEN TransportMessage(r.failure)
    ELSE StatusMessage(r.status, url)

EndsWith(s, suffix) ==
    /\ Len(s) >= Len(suffix)
    /\ SubSeq(s, Len(s) - Len(suffix) + 1, Len(s)) = suffix

Operations == {"search_movie", "get_movie_details", "get_magnet_link"}

\* C17: a request made through _authenticated_get or _authenticated_post that
\* fails in transport or is answered with an error status is raised by the
\* gateway as NetworkError with the message of the underlying error; a direct
\* caller of the gateway gets exactly that and no httpx exception.
C17_GatewayRaisesNetworkError ==
    \A t \in Tasks :
        (/\ op[t] \in GatewayOps \cup Operations
         /\ replies[t] /= <<>> /\ Len(replies[t]) = Len(sent[t])
         /\ ~IsThanksRequest(t, Len(replies[t]))
         /\ FailedRequest(t, Len(replies[t]))) =>
            /\ pc[t] = "done"
            /\ raised[t].kind = "NetworkError"
            /\ EndsWith(raised[t].value, CauseOf(LastReply(t), LastUrl(t)))
            /\ op[t] \in GatewayOps => outcome[t] = raised[t]

C17_Witness ==
    \E t \in Tasks :
        /\ Ended(t, "_authenticated_post") /\ replies[t] /= <<>>
        /\ LastReply(t).status = 500
        /\ outcome[t].kind = "NetworkError"
        /\ EndsWith(outcome[t].value, StatusMessage(500, LastUrl(t)))

\* C18: every request sent by _authenticated_get or _authenticated_post
\* carries the three session cookies together with the caller's cookies, the
\* caller's value being the one sent for a name present in both.
C18_RequestsCarryThreeCookies ==
    \A t \in Tasks :
        (op[t] \in GatewayOps /\ sent[t] /= <<>>) =>
            LET carried == sent[t][1].cookies IN
            /\ CookieNames \subseteq DOMAIN carried
            /\ \A c \in DOMAIN arg[t].cookies : carried[c] = arg[t].cookies[c]

\* the call of an operation has ended with a failure
OperationFailed(t) ==
    op[t] \in Operations /\ pc[t] = "done" /\ outcome[t].kind /= "return"

\* C19 as stated: every failure of search_movie, get_movie_details or
\* get_magnet_link is one of the five failures of exceptions.py; a typed
\* failure raised inside the operation reaches the caller with the same kind,
\* and any other exception reaches it as MirCrewError.
C19_TypedFailuresKeepKind ==
    \A t \in Tasks :
        OperationFailed(t) =>
            /\ outcome[t].kind \in ErrorKinds
            /\ outcome[t].kind =
                  IF raised[t].kind \in ErrorKinds THEN raised[t].kind
                  ELSE "MirCrewError"

\* the gateway's NetworkError that get_movie_details and get_magnet_link take
\* for a missing topic
ReadsLikeNotFound(t) ==
    /\ op[t] \in IdOps /\ raised[t].kind = "NetworkError"
    /\ \E i \in 1..Len(raised[t].value) :
          raised[t].value[i] = "404" \/ Lower(raised[t].value[i]) = "not found"

\* C19 as amended: the same, except that get_movie_details and
\* get_magnet_link turn a NetworkError of a topic-page request whose message
\* contains "404" or "not found" into MovieNotFoundError.
C19_TypedFailuresKeepKindOrNotFound ==
    \A t \in Tasks :
        OperationFailed(t) =>
            /\ outcome[t].kind \in ErrorKinds
            /\ outcome[t].kind =
                  IF ReadsLikeNotFound(t) THEN "MovieNotFoundError"
                  ELSE IF raised[t].kind \in ErrorKinds THEN raised[t].kind
                  ELSE "MirCrewError"

C19_Witness ==
    \E t \in Tasks :
        /\ Ended(t, "get_magnet_link")
        /\ raised[t].kind = "ConnectError" /\ outcome[t].kind = "MirCrewError"

\* the most requests one call of a method sends
MostRequests(method) ==
    IF method = "get_magnet_link" THEN 3
    ELSE IF method = "authenticate" THEN 2 ELSE 1

StatusChecked(t, i) ==
    ~(op[t] = "authenticate" /\ i = 2) /\ ~IsThanksRequest(t, i)

\* request i of the running call raised: it failed in transport, or was
\* answered with an error status that the client looks at
RaisingRequest(t, i) ==
    \/ replies[t][i].failure /= ""
    \/ replies[t][i].status /= 200 /\ StatusChecked(t, i)

----------------------------------------------------------------------------
(* Properties of the server's shared client and of the constructor. *)

\* the session of a client object is that of a successful handshake
SessionOfSuccess(o) ==
    o.authenticated /\ ~LoginRejected(o.session_id, o.user_id, o.autologin_key)

\* C21: when get_client calls have run their handshakes concurrently and none
\* is running any more, the server's session is that of a successful handshake
\* (authenticated, with its tokens) or there is none at all (no client, so no
\* token and no authenticated flag): never authenticated together with the
\* tokens of a failed handshake, nor tokens without authenticated.
C21_ConcurrentHandshakesConverge ==
    (\A t \in Tasks : ~InFlight(t)) =>
        \/ _client = None
        \/ _client \in Ids /\ objects[_client] /= <<>>
             /\ SessionOfSuccess(objects[_client][1])

C21_Witness ==
    /\ \A t \in Tasks : tool[t].pc = "done" /\ tool[t].raced
    /\ \E t \in Tasks : tool[t].out.kind = "AuthenticationError"
    /\ \E t \in Tasks : tool[t].out.kind = "return"

\* C22: every get_client call that returns gives a client object whose
\* authenticated flag is true, never None and never a client whose handshake
\* has not succeeded, however the tool calls interleave.
C22_GetClientReturnsAuthenticated ==
    \A t \in Tasks :
        (tool[t].pc = "done" /\ tool[t].out.kind = "return") =>
            /\ tool[t].out.value \in Ids
            /\ objects[tool[t].out.value] /= <<>>
            /\ objects[tool[t].out.value][1].authenticated

\* the arguments the constructor is called with
CredentialArgs == {None, "", USERNAME}

\* neither the argument nor the environment gives a value
Missing(a, e) == ~IsSet(a) /\ ~IsSet(e)

\* C23: constructing a client when the username or the password is missing
\* (not passed and not in the environment) raises AuthenticationError, so
\* every client object has both credentials; a constructed client has its
\* three tokens unset and authenticated false.
C23_NoClientWithoutCredentials ==
    /\ \A i \in Ids :
          objects[i] /= <<>> =>
              IsSet(objects[i][1].username) /\ IsSet(objects[i][1].password)
    /\ (Missing(None, environ.MIRCREW_USERNAME) \/ Missing(None, environ.MIRCREW_PASSWORD)) =>
          /\ _client = None /\ \A i \in Ids : objects[i] = <<>>
          /\ \A t \in Tasks :
                tool[t].pc = "done" => tool[t].out.kind = "AuthenticationError"
    /\ \A u \in CredentialArgs, p \in {None, PASSWORD}, env \in Environments :
          LET made == MirCrewClient(u, p, env) IN
          IF Missing(u, env.MIRCREW_USERNAME) \/ Missing(p, env.MIRCREW_PASSWORD)
            THEN made.kind = "AuthenticationError"
            ELSE /\ made.kind = "return"
                 /\ IsSet(made.value.username) /\ IsSet(made.value.password)
                 /\ made.value.session_id = None /\ made.value.user_id = None
                 /\ made.value.autologin_key = None /\ ~made.value.authenticated

C23_Witness ==
    /\ environ.MIRCREW_USERNAME = USERNAME /\ environ.MIRCREW_PASSWORD = None
    /\ \E t \in Tasks :
          /\ tool[t].pc = "done" /\ tool[t].out.kind = "AuthenticationError"
          /\ \E i \in 1..Len(tool[t].out.value) :
                tool[t].out.value[i] = MissingCredentials.value[1]

\* C24: the username and the password of a client are those given at
\* construction: no step of authenticate, search_movie, get_movie_details,
\* get_magnet_link, the gateway or close, successful or failed, changes them.
C24_CredentialsFixed ==
    [][username' = username /\ password' = password]_vars

C24_Witness ==
    /\ callers = {} /\ authenticated
    /\ username = USERNAME /\ password = PASSWORD

\* C25 as stated: every magnet URI returned by get_magnet_link contains the
\* info-hash part "xt=urn:btih:", whichever tier of parse_magnet_link found it.
C25_ReturnedMagnetHasInfoHash ==
    \A t \in Tasks :
        (op[t] = "get_magnet_link" /\ pc[t] = "done" /\ outcome[t].kind = "return") =>
            Contains(outcome[t].value, BTIH)

\* the anchors of a results page that give a result: topic links with an id
\* and a text that is not blank
Titled(as) ==
    {i \in 1..Len(as) : /\ IsTopicLink(as[i].href)
                        /\ TopicIdIndex(as[i].href) /= 0
                        /\ strip(as[i].text) /= <<>>}

\* of these, the first of each id
FirstSeen(as) ==
    {i \in Titled(as) :
        \A j \in Titled(as) : TopicId(as[j].href) = TopicId(as[i].href) => i <= j}

SearchParsed == document.for = "parse_search_results" /\ extracted.kind = "return"

HttpTokens == {BASE_URL, OTHER_HOST, "http://go/?u="}

\* the digits that follow "?t=" or "&t=" somewhere in an href
IdsIn(h) ==
    {RunFrom(h, j + 1, IsDigitTok) :
        j \in {n \in 1..Len(h) : h[n] \in {"?t=", "&t="}}}

\* C27: every result of parse_search_results has an id made of digits only,
\* which is the topic id in the href of an anchor of the page, the text of
\* that anchor as a title that is not empty, and a url that begins with
\* "http"; an anchor whose text is empty gives no result.
C27_ResultsWellFormed ==
    SearchParsed =>
        \A k \in 1..Len(extracted.value) :
            LET r == extracted.value[k] IN
            /\ isdigit(r.id)
            /\ r.title /= <<>>
            /\ r.url /= <<>> /\ Head(r.url) \in HttpTokens
            /\ \E i \in 1..Len(document.results) :
                  LET a == document.results[i] IN
                  /\ r.id \in IdsIn(a.href)
                  /\ strip(a.text) = r.title

C27_Witness ==
    /\ SearchParsed
    /\ \E i \in 1..Len(document.results) :
          /\ IsTopicLink(document.results[i].href)
          /\ strip(document.results[i].text) = <<>>
    /\ \E k \in 1..Len(extracted.value) :
          /\ startswith(extracted.value[k].url, <<BASE_URL, "/", VIEWTOPIC>>)
          /\ \E i \in 1..Len(document.results) :
                startswith(document.results[i].href, <<"./", VIEWTOPIC>>)

\* C28 as stated: an anchor with a text whose href is the topic link with
\* digits as t, written with the "./" prefix or without any prefix, gives a
\* result with that id.
C28_PrefixOptional ==
    SearchParsed =>
        \A i \in 1..Len(document.results), d \in Digits :
            LET a == document.results[i] IN
            (/\ a.href \in {<<"./", VIEWTOPIC, "?t=", d>>, <<VIEWTOPIC, "?t=", d>>}
             /\ strip(a.text) /= <<>>) =>
                \E k \in 1..Len(extracted.value) : extracted.value[k].id = <<d>>

MagnetParsed == document.for = "parse_magnet_link" /\ extracted.kind /= "pending"

\* the anchors whose href begins with "magnet:?"
Direct(as) == {i \in 1..Len(as) : as[i] /= <<>> /\ as[i][1] = MAGNET}
\* where a magnet-shaped token begins in the text
InText(x) == {i \in 1..Len(x) : i + 2 <= Len(x) /\ SubSeq(x, i, i + 2) = <<MAGNET, BTIH, HASH>>}
\* where a magnet-shaped substring begins in an href
InHref(h) ==
    {j \in 1..Len(h) : j < Len(h) /\ h[j] = MAGNET /\ h[j + 1] \notin {" ", "\n", "\"", "'", "<", ">"}}
\* s is the part of x that begins at i and ends before the first token of stop
\* after it, or at the end of x
PartOf(s, x, i, stop) ==
    \E e \in i..Len(x) :
        /\ s = SubSeq(x, i, e)
        /\ \A n \in (i + 1)..e : x[n] \notin stop
        /\ e = Len(x) \/ x[e + 1] \in stop

\* C29: parse_magnet_link searches in a fixed order and returns the first hit:
\* (1) the href of the first anchor that begins with "magnet:?", exactly as
\* written; else (2) the first magnet-shaped token in the text of the page;
\* else (3) the first magnet-shaped substring in the href of an anchor; when
\* all three miss it raises ParsingError.
C29_ThreeTiersInOrder ==
    MagnetParsed =>
        LET as == document.topic.anchors
            x  == document.topic.text
            r  == extracted
            hs == {i \in 1..Len(as) : InHref(as[i]) /= {}}
        IN  IF Direct(as) /= {}
              THEN r.kind = "return" /\ r.value = as[Min(Direct(as))]
            ELSE IF InText(x) /= {}
              THEN r.kind = "return" /\ PartOf(r.value, x, Min(InText(x)), {" ", "\n"})
            ELSE IF hs /= {}
              THEN /\ r.kind = "return"
                   /\ PartOf(r.value, as[Min(hs)], Min(InHref(as[Min(hs)])),
                             {" ", "\n", "\"", "'", "<", ">"})
            ELSE r.kind = "ParsingError"

C29_Witness ==
    /\ MagnetParsed /\ extracted.kind = "return"
    /\ Direct(document.topic.anchors) = {}
    /\ InText(document.topic.text) /= {}
    /\ \E i \in 1..Len(document.topic.anchors) : InHref(document.topic.anchors[i]) /= {}
    /\ Len(extracted.value) = 4

\* the three sources of the title of a topic page, in order
TitleSources(page) ==
    LET h == page.h2 IN
    << IF h /= <<>> /\ h[1].link /= <<>> THEN strip(h[1].link[1]) ELSE <<>>,
       IF h = <<>> THEN <<>>
       ELSE (IF h[1].link /= <<>> THEN strip(h[1].link[1]) ELSE <<>>) \o strip(h[1].rest),
       StripSuffix(strip(page.title)) >>

\* C30 as stated: the title parse_movie_details gives is the first that is not
\* empty of (a) the text of the link in the topic-title heading, (b) the text
\* of the heading, (c) the page title without the site-name suffix; it is
\* empty only when all three are.
C30_TitleFallbackOrder ==
    (document.for = "parse_movie_details" /\ extracted.kind = "return") =>
        LET from == TitleSources(document.details)
            some == {n \in 1..3 : from[n] /= <<>>}
        IN  extracted.value.title = (IF some = {} THEN <<>> ELSE from[Min(some)])

DetailsParsed == document.for = "parse_movie_details" /\ extracted.kind = "return"

\* a label of labels is in text at i and its value follows: after blanks and
\* line breaks, four digits (digits) or a character that is not a line break
LabelMatches(text, labels, digits) ==
    \E i \in 1..Len(text) :
        /\ text[i] \in labels
        /\ \E j \in (i + 1)..Len(text) :
              /\ \A n \in (i + 1)..(j - 1) : text[n] \in {" ", "\n"}
              /\ IF digits THEN text[j] = "1964" ELSE text[j] /= "\n"

\* C31: each of year, genre, quality and size is set exactly when its own
\* label (Italian or English, in any case) with a value is in raw_content,
\* whatever the other fields are and wherever the line is, and is unset
\* otherwise, without failure; "Year: 1964" gives the year "1964".
C31_OptionalFieldsIndependent ==
    (document.for = "parse_movie_details" /\ extracted.kind /= "pending") =>
        /\ extracted.kind = "return"
        /\ LET d   == extracted.value
               raw == d.raw_content
           IN  /\ d.year /= <<>> <=> LabelMatches(raw, {"Year:", "ANNO:"}, TRUE)
               /\ d.genre /= <<>> <=> LabelMatches(raw, {"Genre:", "genere:"}, FALSE)
               /\ d.quality /= <<>> <=> LabelMatches(raw, {"Quality:"}, FALSE)
               /\ d.size /= <<>> <=> LabelMatches(raw, {"Size:", "DIMENSIONE:"}, FALSE)
               /\ d.year /= <<>> => d.year = << <<"1964">> >>

C31_Witness ==
    /\ DetailsParsed
    /\ extracted.value.year = << <<"1964">> >>
    /\ extracted.value.genre = <<>>
    /\ extracted.value.quality /= <<>>
    /\ \E i, j \in 1..Len(extracted.value.raw_content) :
          /\ i < j
          /\ extracted.value.raw_content[i] = "Quality:"
          /\ extracted.value.raw_content[j] = "ANNO:"

\* the post body of the page: the div of the content class, else the postbody
BodyOf(page) ==
    IF page.body.content /= <<>> THEN page.body.content[1]
    ELSE IF page.body.postbody /= <<>> THEN page.body.postbody[1]
    ELSE <<>>

\* s is the text of a paragraph, or a line, of more than 50 characters
Over50(s) == CharLen(s) > 50

\* C32: the description is the text of the first paragraph of the post body
\* that is longer than 50 characters; when there is none, the first line of
\* raw_content longer than 50 characters; otherwise empty. A text of exactly
\* 50 characters is never taken.
C32_DescriptionOver50 ==
    DetailsParsed =>
        LET nodes == BodyOf(document.details)
            raw   == extracted.value.raw_content
            desc  == extracted.value.description
            ps    == {i \in 1..Len(nodes) : nodes[i].p /\ Over50(StripText(nodes[i].text))}
            line(b) == StripText(RunFrom(raw, b, NotNewline))
            ls    == {b \in LineStarts(raw) : Over50(line(b))}
        IN  /\ ps /= {} => desc = StripText(nodes[Min(ps)].text)
            /\ (ps = {} /\ ls /= {}) => desc = line(Min(ls))
            /\ (ps = {} /\ ls = {}) => desc = <<>>
            /\ CharLen(desc) /= 50

C32_Witness ==
    /\ DetailsParsed
    /\ extracted.value.description = <<X51>>
    /\ LET nodes == BodyOf(document.details) IN
       /\ Len(nodes) = 2
       /\ nodes[1].p /\ CharLen(StripText(nodes[1].text)) = 50
       /\ nodes[2].p

\* C35: raw_content is always a string: the flattened text of the first div
\* of the content class, or, only when there is none, of the div of class
\* postbody; when the page has neither, raw_content and the description are
\* empty.
C35_RawContentFromPostBody ==
    DetailsParsed =>
        LET body == document.details.body
            d    == extracted.value
        IN  /\ body.content /= <<>> => d.raw_content = GetText(body.content[1])
            /\ (body.content = <<>> /\ body.postbody /= <<>>) =>
                  d.raw_content = GetText(body.postbody[1])
            /\ (body.content = <<>> /\ body.postbody = <<>>) =>
                  d.raw_content = <<>> /\ d.description = <<>>

C35_Witness ==
    /\ DetailsParsed
    /\ document.details.body.content /= <<>>
    /\ document.details.body.postbody /= <<>>
    /\ extracted.value.raw_content /= <<>>
    /\ GetText(document.details.body.content[1]) /= GetText(document.details.body.postbody[1])

----------------------------------------------------------------------------
(* Properties of the requests of the operations. *)

TopicUrlOf(id) == <<BASE_URL, "/viewtopic.php", "?t=">> \o id

\* C34 as stated: for every valid id, the details get_movie_details returns
\* have the requested movie_id as id and the topic URL of that id under
\* BASE_URL as url, whatever the page holds.
C34_DetailsOfRequestedId ==
    \A t \in Tasks :
        (Ended(t, "get_movie_details") /\ Succeeded(t)) =>
            /\ outcome[t].value.id = arg[t]
            /\ outcome[t].value.url = TopicUrlOf(arg[t])

\* C34 as amended: for every valid id, the details get_movie_details returns
\* have the requested movie_id without its surrounding blanks as id, and the
\* topic URL of that id under BASE_URL as url, whatever the page holds.
C34_DetailsOfStrippedId ==
    \A t \in Tasks :
        (Ended(t, "get_movie_details") /\ Succeeded(t)) =>
            /\ outcome[t].value.id = strip(arg[t])
            /\ isdigit(outcome[t].value.id)
            /\ outcome[t].value.url = TopicUrlOf(strip(arg[t]))

C34_Witness ==
    \E t \in Tasks :
        /\ Ended(t, "get_movie_details") /\ Succeeded(t)
        /\ arg[t] = <<" ", "7">>
        /\ outcome[t].value.raw_content /= <<>>

\* the first topic page of get_magnet_link has arrived and is not a page that
\* says the topic does not exist
FirstPageRead(t) ==
    /\ op[t] = "get_magnet_link" /\ Len(replies[t]) >= 1
    /\ replies[t][1].failure = "" /\ replies[t][1].status = 200
    /\ Lower(replies[t][1].phrase) \notin {"does not exist", "not found"}

C37_ThanksFailureIsNetworkError ==
    \A t \in Tasks :
        (/\ op[t] = "get_magnet_link" /\ Len(replies[t]) >= 2
         /\ IsThanksRequest(t, 2) /\ replies[t][2].failure /= "") =>
            /\ pc[t] = "done"
            /\ outcome[t].kind = "NetworkError"
            /\ Len(sent[t]) = 2

\* C38: every call of authenticate runs the handshake from its first step,
\* whatever earlier calls left: the first request is the GET of the login
\* page, and once the page gave the form tokens and the form action the second
\* is the POST of the credentials with these tokens to that action; no step
\* is skipped after a failure or after a success.
C38_FullHandshakeEachCall ==
    \A t \in Tasks :
        (op[t] = "authenticate" /\ pc[t] /= "idle") =>
            /\ Len(sent[t]) >= 1
            /\ sent[t][1].method = "GET" /\ sent[t][1].url = <<BASE_URL, "/index.php">>
            /\ Len(sent[t]) <= 2
            /\ pc[t] = "done" /\ Succeeded(t) => Len(sent[t]) = 2
            /\ Len(sent[t]) = 2 =>
                  /\ sent[t][2].method = "POST"
                  /\ sent[t][2].data.username = username
                  /\ sent[t][2].data.password = password
                  /\ sent[t][2].data.form_token = login_form[t].form_token
                  /\ sent[t][2].data.creation_time = login_form[t].creation_time

C38_Witness ==
    \E t \in Tasks :
        /\ op[t] = "authenticate" /\ pc[t] = "login_post"
        /\ authenticated
        /\ Len(sent[t]) = 2

\* C39: search_movie, get_movie_details and get_magnet_link never change the
\* session: no step of these operations, whether the call ends with a result
\* or with a failure, changes session_id, user_id, autologin_key or
\* authenticated.
C39_OperationsKeepSession ==
    [][ (\E t \in Tasks : op'[t] \in Operations /\ pc'[t] /= pc[t]) =>
            session' = session ]_vars

C39_Witness ==
    \E t \in Tasks :
        /\ op[t] = "get_movie_details" /\ pc[t] = "done"
        /\ outcome[t].kind = "NetworkError"
        /\ authenticated

\* C40 as stated: every request to which the client attaches the session
\* cookies or the credentials is addressed to a URL under BASE_URL, whatever
\* the pages hold: the credentials POST, the thanks request and the requests
\* of the gateway.
C40_SecretsOnlyToBaseUrl ==
    \A t \in Tasks :
        \A i \in 1..Len(sent[t]) :
            (sent[t][i].method = "POST" \/ DOMAIN sent[t][i].cookies /= {}) =>
                Head(sent[t][i].url) = BASE_URL

====
